---- MODULE Spec2Model ----
(***************************************************************************)
(* Model of the rag-bot backend: the per-user chat state kept in Redis     *)
(* (ChatService), the submit-query endpoint (query_endpoint), the          *)
(* get-thread endpoint and the confidence router (query_ragbot).           *)
(*                                                                         *)
(* Python values are modelled as follows.                                  *)
(*   - Optional values: None is <<>>, a present value v is <<v>>.          *)
(*   - Strings: a sequence of runs [c, n], the character c repeated n > 0  *)
(*     times, adjacent runs holding different characters.  The fixed       *)
(*     messages of the code are strings of one atom.                       *)
(*   - uuid4() and datetime.utcnow() draw from two counters.               *)
(*   - Relevance scores are counted in tenths.                             *)
(***************************************************************************)
EXTENDS Integers, Sequences, FiniteSets, TLC

(***************************************************************************)
(* Bounds of the model.                                                    *)
(***************************************************************************)
\* settings.MAX_MESSAGES_PER_USER, the configured quota (default 30).
MAX_MESSAGES_PER_USER == 1
\* Number of requests the clients send in one behaviour.
MaxRequests == 3
\* Largest number of source nodes a similarity search returns.
MaxNodes == 2
\* Largest number of threads, or of messages, a paginated listing is run on.
MaxItems == 3
\* The time-to-live of a record (settings.REDIS_CHAT_TTL), counted in ticks.
ChatTtl == 2
\* Largest number of calls in a sequence of direct calls of the service.
MaxCalls == 4
\* The life of the cached key set (_google_keys_cache_ttl, one hour), counted
\* in ticks.
KeysTtl == 2
\* The last tick of the clock in a behaviour of token verifications.
MaxClock == 5

(***************************************************************************)
(* Program constants.                                                      *)
(***************************************************************************)
\* query.py: len(question) > 1000
MaxQuestionLen == 1000
\* query.py: question[:50] + "..."
TitleLen == 50
\* settings.RAG_CONFIDENCE_THRESHOLD = 0.3, in tenths.
RAG_CONFIDENCE_THRESHOLD == 3

Users == {"alice@x", "bob@x"}
Procs == {"r1", "r2"}

(***************************************************************************)
(* Optional values.                                                        *)
(***************************************************************************)
None == <<>>
Some(v) == <<v>>
IsNone(o) == o = <<>>
Val(o) == o[1]

(***************************************************************************)
(* Strings.                                                                *)
(***************************************************************************)
WS == " "
Rep(c, n) == IF n = 0 THEN <<>> ELSE <<[c |-> c, n |-> n]>>

RECURSIVE StrLen(_)
StrLen(s) == IF s = <<>> THEN 0 ELSE Head(s).n + StrLen(Tail(s))

\* s + t
Concat(s, t) ==
    IF s = <<>> THEN t
    ELSE IF t = <<>> THEN s
    ELSE IF s[Len(s)].c = Head(t).c
         THEN SubSeq(s, 1, Len(s) - 1)
              \o <<[c |-> Head(t).c, n |-> s[Len(s)].n + Head(t).n]>>
              \o Tail(t)
         ELSE s \o t

\* s[:k]
RECURSIVE Prefix(_, _)
Prefix(s, k) ==
    IF k <= 0 \/ s = <<>> THEN <<>>
    ELSE IF Head(s).n >= k THEN <<[c |-> Head(s).c, n |-> k]>>
    ELSE <<Head(s)>> \o Prefix(Tail(s), k - Head(s).n)

RECURSIVE LStrip(_)
LStrip(s) == IF s # <<>> /\ Head(s).c = WS THEN LStrip(Tail(s)) ELSE s

RECURSIVE RStrip(_)
RStrip(s) ==
    IF s # <<>> /\ s[Len(s)].c = WS THEN RStrip(SubSeq(s, 1, Len(s) - 1)) ELSE s

\* Variant: nothing is removed.
Strip_nothing(s) == s

\* s.strip()
Strip(s) == RStrip(LStrip(s))

\* bool(s) of a string
Truthy(s) == s # <<>>

\* The literals of the code.
Ellipsis == Rep(".", 3)
EmptyResponse == Rep("Empty Response", 1)
RejectionMsg == Rep("Please provide a valid question.", 1)
LlmApology == Rep("I apologize, but I'm unable to generate a response at this time.", 1)
EndpointApology == Rep("I apologize, but I couldn't generate a response for your question.", 1)

(***************************************************************************)
(* The stored record: json.dumps / json.loads and the default state.       *)
(***************************************************************************)
\* What redis_client.get returns for a key that holds nothing.
Nil == [kind |-> "nil"]
\* json.dumps(user_data)
dumps(data) == [kind |-> "json", data |-> data]
\* A payload nobody wrote with json.dumps: text that is not JSON, and JSON
\* that is not an object (a list, a number, null).
NotJson == [kind |-> "text"]
JsonNotObject == [kind |-> "json_other"]
\* json.loads raises JSONDecodeError on a payload that is not JSON.
loadsRaises(payload) == payload.kind = "text"
loads(payload) == payload.data

DefaultData == [threads |-> <<>>, requests_available |-> MAX_MESSAGES_PER_USER]

\* Variant: one key for every user.
_get_user_key_shared(user_email) == <<"chat:user:", "">>

_get_user_key(user_email) == <<"chat:user:", user_email>>

\* JWTAuth.get_current_user: the user_info built from a verified token
\* payload; payload.get("email") is None for a token without the claim.
get_current_user(payload) ==
    [user_id |-> payload.sub, email |-> payload.email]

\* What the f-string of _get_user_key makes of None.
NoEmail == "None"

\* The endpoints: user_email = current_user.get('email', 'unknown').  The
\* key 'email' is always present in user_info, so the default is never
\* taken and a missing email comes out as None.
endpoint_user_email(current_user) ==
    IF IsNone(current_user.email) THEN NoEmail ELSE Val(current_user.email)

Keys == {_get_user_key(u) : u \in Users \cup {NoEmail}}

\* ChatService._get_user_data raises: json.loads gave a value that is not a
\* dict, and the test or the assignment of "requests_available" (lines 49-50)
\* raises TypeError, which the except JSONDecodeError does not catch.
_get_user_data_raises(r, user_email) ==
    r[_get_user_key(user_email)].kind = "json_other"

\* Variant: a record without the field is read as having no quota left.
_get_user_data_legacy_spent(r, user_email) ==
    LET user_data == r[_get_user_key(user_email)] IN
    IF user_data.kind = "nil" THEN DefaultData
    ELSE IF loadsRaises(user_data) THEN DefaultData
    ELSE LET data == loads(user_data) IN
         IF "requests_available" \notin DOMAIN data
         THEN [threads |-> data.threads, requests_available |-> 0]
         ELSE data

\* ChatService._get_user_data over the store r, when it returns.
_get_user_data(r, user_email) ==
    LET user_data == r[_get_user_key(user_email)] IN
    IF user_data.kind = "nil" THEN DefaultData
    ELSE IF loadsRaises(user_data) THEN DefaultData
    ELSE LET data == loads(user_data) IN
         IF "requests_available" \notin DOMAIN data
         THEN [threads |-> data.threads,
               requests_available |-> MAX_MESSAGES_PER_USER]
         ELSE data

\* Variant: the record is written only when the key holds nothing.
_save_user_data_if_absent(r, user_email, user_data) ==
    IF r[_get_user_key(user_email)].kind = "nil"
    THEN [r EXCEPT ![_get_user_key(user_email)] = dumps(user_data)]
    ELSE r

\* ChatService._save_user_data: the store after setex(user_key, ttl, dumps).
_save_user_data(r, user_email, user_data) ==
    [r EXCEPT ![_get_user_key(user_email)] = dumps(user_data)]

(***************************************************************************)
(* ChatService: the pure parts of its operations over a snapshot.          *)
(***************************************************************************)
ThreadIndex(threads, thread_id) ==
    {i \in 1..Len(threads) : threads[i].id = thread_id}

\* get_thread: the first thread with the id, or None.
FindThread(user_data, thread_id) ==
    LET idx == ThreadIndex(user_data.threads, thread_id) IN
    IF idx = {} THEN None
    ELSE Some(user_data.threads[CHOOSE i \in idx : \A j \in idx : i <= j])

get_thread(r, thread_id, user_email) ==
    FindThread(_get_user_data(r, user_email), thread_id)

get_user_threads(r, user_email) == _get_user_data(r, user_email).threads

get_user_requests_available(r, user_email) ==
    _get_user_data(r, user_email).requests_available

\* Variant: a counter at 0 still passes.
can_user_send_message_at_zero(r, user_email) ==
    get_user_requests_available(r, user_email) >= 0

can_user_send_message(r, user_email) ==
    get_user_requests_available(r, user_email) > 0

\* create_thread: the snapshot with the new thread appended.
NewThread(thread_id, title, now) ==
    [id |-> thread_id, title |-> title, created_at |-> now,
     updated_at |-> now, messages |-> <<>>]

WithThread(user_data, thread_id, title, now) ==
    [user_data EXCEPT !.threads = Append(@, NewThread(thread_id, title, now))]

\* add_message_to_thread: the snapshot with the message appended to the
\* first thread that has the id, and that thread's updated_at bumped.
\* Variant: the message takes its timestamp from a utcnow() of its own.
NewMessage_own_now(message_id, role, content, now) ==
    [id |-> message_id, role |-> role, content |-> content,
     timestamp |-> now + 1]

NewMessage(message_id, role, content, now) ==
    [id |-> message_id, role |-> role, content |-> content, timestamp |-> now]

\* Variant: the message is appended, updated_at stays.
WithMessage_stale_updated_at(user_data, thread_id, message_id, role, content, now) ==
    LET idx == ThreadIndex(user_data.threads, thread_id)
        i == CHOOSE k \in idx : \A j \in idx : k <= j
    IN [user_data EXCEPT
          !.threads[i].messages =
              Append(@, NewMessage(message_id, role, content, now))]

\* Variant: the append bumps the updated_at of every thread of the user.
WithMessage_touch_all(user_data, thread_id, message_id, role, content, now) ==
    LET idx == ThreadIndex(user_data.threads, thread_id)
        i == CHOOSE k \in idx : \A j \in idx : k <= j
    IN [user_data EXCEPT
          !.threads = [k \in 1..Len(@) |->
              IF k = i
              THEN [@[k] EXCEPT
                      !.messages =
                          Append(@, NewMessage(message_id, role, content, now)),
                      !.updated_at = now]
              ELSE [@[k] EXCEPT !.updated_at = now]]]

\* Variant: the append also restarts the created_at of the thread.
WithMessage_as_new(user_data, thread_id, message_id, role, content, now) ==
    LET idx == ThreadIndex(user_data.threads, thread_id)
        i == CHOOSE k \in idx : \A j \in idx : k <= j
    IN [user_data EXCEPT
          !.threads[i].messages =
              Append(@, NewMessage(message_id, role, content, now)),
          !.threads[i].updated_at = now,
          !.threads[i].created_at = now]

WithMessage(user_data, thread_id, message_id, role, content, now) ==
    LET idx == ThreadIndex(user_data.threads, thread_id)
        i == CHOOSE k \in idx : \A j \in idx : k <= j
    IN [user_data EXCEPT
          !.threads[i].messages =
              Append(@, NewMessage(message_id, role, content, now)),
          !.threads[i].updated_at = now]

\* Variant: the counter is lowered whatever it holds.
decrement_allowed_always(current_requests) == TRUE

\* decrement_user_requests: `if current_requests > 0`.
decrement_allowed(current_requests) == current_requests > 0

\* Variant: the counter is not lowered.
Decremented_not(user_data) == user_data

\* Variant: the record written holds the lowered counter and nothing else.
Decremented_counter_only(user_data) ==
    [threads |-> <<>>, requests_available |-> user_data.requests_available - 1]

\* decrement_user_requests: the snapshot with the counter lowered.
Decremented(user_data) ==
    [user_data EXCEPT !.requests_available = @ - 1]

\* delete_thread: the snapshot without the threads that have the id.
RECURSIVE FilterOut(_, _)
FilterOut(threads, thread_id) ==
    IF threads = <<>> THEN <<>>
    ELSE IF Head(threads).id = thread_id THEN FilterOut(Tail(threads), thread_id)
    ELSE <<Head(threads)>> \o FilterOut(Tail(threads), thread_id)

\* Variant: deleting a thread gives the quota back.
WithoutThread_refund(user_data, thread_id) ==
    [threads |-> FilterOut(user_data.threads, thread_id),
     requests_available |-> MAX_MESSAGES_PER_USER]

WithoutThread(user_data, thread_id) ==
    [user_data EXCEPT !.threads = FilterOut(@, thread_id)]

\* GET /chat/limits: the report on the store r.
get_user_limits(r, user_email) ==
    LET requests_available == get_user_requests_available(r, user_email)
        max_requests == MAX_MESSAGES_PER_USER
        requests_used == max_requests - requests_available
    IN [requests_available |-> requests_available,
        max_requests |-> max_requests,
        requests_used |-> requests_used]

(***************************************************************************)
(* ChatHandler: the paginated listings.                                    *)
(***************************************************************************)
\* str.lower() and the code points, of the characters the listed titles use.
LowerChar(c) == IF c = "B" THEN "b" ELSE c
CharCode(c) == IF c = "B" THEN 66 ELSE IF c = "a" THEN 97 ELSE 98

\* The code points of s.lower().
RECURSIVE LowerCodes(_)
LowerCodes(s) ==
    IF s = <<>> THEN <<>>
    ELSE [i \in 1..Head(s).n |-> CharCode(LowerChar(Head(s).c))]
         \o LowerCodes(Tail(s))

\* sort_order.lower()
LowerWord(w) == IF w = "DESC" THEN "desc" ELSE w

\* The order of the sort keys (strings, compared character by character; a
\* timestamp is a key of one element).
RECURSIVE LexLess(_, _)
LexLess(a, b) ==
    IF b = <<>> THEN FALSE
    ELSE IF a = <<>> THEN TRUE
    ELSE IF Head(a) < Head(b) THEN TRUE
    ELSE IF Head(a) > Head(b) THEN FALSE
    ELSE LexLess(Tail(a), Tail(b))

\* list.sort(key=..., reverse=...): stable in both directions.
Precedes(a, b, reverse) == IF reverse THEN LexLess(b, a) ELSE LexLess(a, b)

RECURSIVE InsertInto(_, _, _)
InsertInto(x, acc, reverse) ==
    IF acc = <<>> THEN <<x>>
    ELSE IF Precedes(x.key, Head(acc).key, reverse) THEN <<x>> \o acc
    ELSE <<Head(acc)>> \o InsertInto(x, Tail(acc), reverse)

RECURSIVE SortKeyed(_, _)
SortKeyed(pairs, reverse) ==
    IF pairs = <<>> THEN <<>>
    ELSE InsertInto(pairs[Len(pairs)],
                    SortKeyed(SubSeq(pairs, 1, Len(pairs) - 1), reverse),
                    reverse)

list_sort(items, keys, reverse) ==
    LET sorted == SortKeyed([i \in 1..Len(items) |->
                                [key |-> keys[i], item |-> items[i]]], reverse)
    IN [i \in 1..Len(sorted) |-> sorted[i].item]

\* Variant: the element at end_idx belongs to the slice too.
Slice_inclusive(xs, start_idx, end_idx) ==
    SubSeq(xs, start_idx + 1,
           IF end_idx + 1 < Len(xs) THEN end_idx + 1 ELSE Len(xs))

\* xs[start_idx:end_idx] with indices that are not negative.
Slice(xs, start_idx, end_idx) ==
    SubSeq(xs, start_idx + 1, IF end_idx < Len(xs) THEN end_idx ELSE Len(xs))

\* Variant: the pages are counted from 0.
Paginate_zero_based(all, page, page_size) ==
    LET total_count == Len(all)
        total_pages == (total_count + page_size - 1) \div page_size
        start_idx == page * page_size
        end_idx == start_idx + page_size
    IN [items |-> Slice(all, start_idx, end_idx),
        total_count |-> total_count, page |-> page, page_size |-> page_size,
        total_pages |-> total_pages, has_next |-> page < total_pages,
        has_previous |-> page > 1]

\* chat_handler.py 60-67 and 82-90 (182-189 and 203-212): the pagination.
Paginate(all, page, page_size) ==
    LET total_count == Len(all)
        total_pages == (total_count + page_size - 1) \div page_size
        start_idx == (page - 1) * page_size
        end_idx == start_idx + page_size
    IN [items |-> Slice(all, start_idx, end_idx),
        total_count |-> total_count, page |-> page, page_size |-> page_size,
        total_pages |-> total_pages, has_next |-> page < total_pages,
        has_previous |-> page > 1]

\* chat_handler.py 50-58: the key of the sort of the threads.
ThreadSortKey(thread, sort_by) ==
    IF sort_by = "created_at" THEN <<thread.created_at>>
    ELSE IF sort_by = "updated_at" THEN <<thread.updated_at>>
    ELSE IF sort_by = "title" THEN LowerCodes(thread.title)
    ELSE <<thread.updated_at>>

ChatThreadSummary(thread) ==
    [id |-> thread.id, title |-> thread.title,
     created_at |-> thread.created_at, updated_at |-> thread.updated_at,
     message_count |-> Len(thread.messages)]

get_user_threads_paginated(r, user_email, page, page_size, sort_by, sort_order) ==
    LET all_threads == get_user_threads(r, user_email)
        reverse == LowerWord(sort_order) = "desc"
        sorted == list_sort(all_threads,
                            [i \in 1..Len(all_threads) |->
                                ThreadSortKey(all_threads[i], sort_by)],
                            reverse)
        pg == Paginate(sorted, page, page_size)
    IN [raised |-> FALSE,
        listing |-> [pg EXCEPT !.items =
                        [i \in 1..Len(pg.items) |-> ChatThreadSummary(pg.items[i])]]]

get_thread_messages_paginated(r, thread_id, user_email, page, page_size, sort_order) ==
    LET thread == get_thread(r, thread_id, user_email) IN
    IF IsNone(thread)
    THEN [raised |-> TRUE, error |-> "ValueError"]
    ELSE LET messages == Val(thread).messages
             reverse == LowerWord(sort_order) = "desc"
             sorted == list_sort(messages,
                                 [i \in 1..Len(messages) |->
                                     <<messages[i].timestamp>>],
                                 reverse)
         IN [raised |-> FALSE, listing |-> Paginate(sorted, page, page_size)]

(***************************************************************************)
(* ChatService: each operation as a whole, called on the store r with the  *)
(* arguments c; new_id and now are what uuid4() and utcnow() give.  The    *)
(* outcome holds the exception or the returned value, and the store after. *)
(***************************************************************************)
Raises(r, error) ==
    [raised |-> TRUE, error |-> error, store |-> r, saved |-> FALSE]
Returns(r, value) ==
    [raised |-> FALSE, error |-> "none", value |-> value, store |-> r,
     saved |-> FALSE]
\* The operation returns after _save_user_data(user_email, user_data).
Saves(r, user_email, user_data, value) ==
    [raised |-> FALSE, error |-> "none", value |-> value,
     store |-> _save_user_data(r, user_email, user_data), saved |-> TRUE]

ServiceFns ==
    {"get_user_threads", "get_thread", "create_thread",
     "add_message_to_thread", "get_user_requests_available",
     "can_user_send_message", "decrement_user_requests", "delete_thread"}

ServiceOutcome(r, c, new_id, now) ==
    IF _get_user_data_raises(r, c.user_email) THEN Raises(r, "TypeError")
    ELSE
    LET user_data == _get_user_data(r, c.user_email) IN
    CASE c.fn = "get_user_threads" -> Returns(r, user_data.threads)
      [] c.fn = "get_thread" -> Returns(r, FindThread(user_data, c.thread_id))
      [] c.fn = "create_thread" ->
            Saves(r, c.user_email,
                  WithThread(user_data, new_id, c.title, now), new_id)
      [] c.fn = "add_message_to_thread" ->
            IF ThreadIndex(user_data.threads, c.thread_id) = {}
            THEN Raises(r, "ValueError")
            ELSE Saves(r, c.user_email,
                       WithMessage(user_data, c.thread_id, new_id, c.role,
                                   c.content, now), new_id)
      [] c.fn = "get_user_requests_available" ->
            Returns(r, user_data.requests_available)
      [] c.fn = "can_user_send_message" ->
            Returns(r, user_data.requests_available > 0)
      [] c.fn = "decrement_user_requests" ->
            IF decrement_allowed(user_data.requests_available)
            THEN Saves(r, c.user_email, Decremented(user_data),
                       Decremented(user_data).requests_available)
            ELSE Returns(r, user_data.requests_available)
      [] c.fn = "delete_thread" ->
            IF Len(WithoutThread(user_data, c.thread_id).threads)
                   = Len(user_data.threads)
            THEN Returns(r, FALSE)
            ELSE Saves(r, c.user_email,
                       WithoutThread(user_data, c.thread_id), TRUE)

\* The time-to-live of the keys, t: key -> the ticks the key still lives, 0
\* for a key that holds nothing.
\* Variant: a write to a living key keeps the time the key has left.
renewed_keepttl(t, user_email) ==
    IF t[_get_user_key(user_email)] > 0 THEN t
    ELSE [t EXCEPT ![_get_user_key(user_email)] = ChatTtl]

\* _save_user_data: setex(user_key, self.chat_ttl, ...) gives the key the
\* whole window again.
renewed(t, user_email) == [t EXCEPT ![_get_user_key(user_email)] = ChatTtl]

\* Variant: a read of a living key renews it too.
ttl_after_touch_on_read(t, user_email, saved) ==
    IF saved \/ t[_get_user_key(user_email)] > 0 THEN renewed(t, user_email)
    ELSE t

\* The time-to-live after an operation: only _save_user_data touches it.
ttl_after(t, user_email, saved) ==
    IF saved THEN renewed(t, user_email) ELSE t

\* One tick passes: every living key has one tick less, and a key whose
\* time has run out holds nothing.
ticked(t) == [k \in DOMAIN t |-> IF t[k] > 0 THEN t[k] - 1 ELSE 0]
expired(r, t) == [k \in DOMAIN r |-> IF t[k] = 0 THEN Nil ELSE r[k]]
\* The time-to-live of the keys of a store whose records were just written.
FreshTtl(r) == [k \in DOMAIN r |-> IF r[k] = Nil THEN 0 ELSE ChatTtl]

(***************************************************************************)
(* The confidence router, query_ragbot.  The providers are its inputs:     *)
(*   sr  the outcome of query_engine.query: it raises, or it yields        *)
(*       response.response (a string or None) and response.source_nodes,   *)
(*       each node with a score or None;                                   *)
(*   lr  the outcome of Settings.llm.chat: it raises, or it yields         *)
(*       message.content (a string or None);                               *)
(*   insert_raises  whether index.insert raises.                           *)
(* The result records what the call did: whether it raised, the string it  *)
(* returned, and the provider calls it made.                               *)
(***************************************************************************)
RECURSIVE Sum(_)
Sum(xs) == IF xs = <<>> THEN 0 ELSE Head(xs) + Sum(Tail(xs))

\* [node.score for node in source_nodes if node.score is not None]
RECURSIVE ScoresOf(_)
ScoresOf(nodes) ==
    IF nodes = <<>> THEN <<>>
    ELSE IF IsNone(Head(nodes)) THEN ScoresOf(Tail(nodes))
    ELSE <<Val(Head(nodes))>> \o ScoresOf(Tail(nodes))

\* confidence_score as a fraction num/den: sum(scores)/len(scores), or 0.0.
Confidence(nodes) ==
    LET scores == ScoresOf(nodes) IN
    IF nodes # <<>> /\ scores # <<>>
    THEN [num |-> Sum(scores), den |-> Len(scores)]
    ELSE [num |-> 0, den |-> 1]

\* Variant: the threshold itself is not enough.
HighConfidence_strict(nodes) ==
    Confidence(nodes).num > RAG_CONFIDENCE_THRESHOLD * Confidence(nodes).den

\* confidence_score >= settings.RAG_CONFIDENCE_THRESHOLD, for a setting that
\* holds threshold (a float of the environment, in tenths; config.py puts no
\* validator on it).
HighConfidenceAt(nodes, threshold) ==
    Confidence(nodes).num >= threshold * Confidence(nodes).den

\* confidence_score >= settings.RAG_CONFIDENCE_THRESHOLD
HighConfidence(nodes) ==
    Confidence(nodes).num >= RAG_CONFIDENCE_THRESHOLD * Confidence(nodes).den

\* text_response and text_response.strip() and text_response != "Empty Response"
UsableRagText(text_response) ==
    /\ ~IsNone(text_response)
    /\ Truthy(Val(text_response))
    /\ Truthy(Strip(Val(text_response)))
    /\ Val(text_response) # EmptyResponse

\* not text_response or not text_response.strip()
BlankLlmText(content) ==
    \/ IsNone(content)
    \/ ~Truthy(Val(content))
    \/ ~Truthy(Strip(Val(content)))

NoCalls == [search |-> 0, chat |-> <<>>, insert |-> <<>>, stored |-> <<>>]

\* Variant: a blank LLM text is returned as it is.
LlmFallback_no_apology(query, lr, insert_raises) ==
    LET messages == <<[role |-> "user", content |-> query]>> IN
    IF lr.raises
    THEN [raised |-> TRUE, result |-> <<>>, search |-> 1,
          chat |-> <<messages>>, insert |-> <<>>, stored |-> <<>>]
    ELSE IF BlankLlmText(lr.content)
    THEN [raised |-> FALSE, result |-> <<>>, search |-> 1,
          chat |-> <<messages>>, insert |-> <<>>, stored |-> <<>>]
    ELSE LET doc == [query |-> query, answer |-> Val(lr.content),
                     source |-> "LLM Response"]
         IN [raised |-> FALSE, result |-> Strip(Val(lr.content)), search |-> 1,
             chat |-> <<messages>>, insert |-> <<doc>>,
             stored |-> IF insert_raises THEN <<>> ELSE <<doc>>]

\* Variant: the LLM is sent the trimmed question.
LlmFallback_trimmed_question(query, lr, insert_raises) ==
    LET messages == <<[role |-> "user", content |-> Strip(query)]>> IN
    IF lr.raises
    THEN [raised |-> TRUE, result |-> <<>>, search |-> 1,
          chat |-> <<messages>>, insert |-> <<>>, stored |-> <<>>]
    ELSE IF BlankLlmText(lr.content)
    THEN [raised |-> FALSE, result |-> Strip(LlmApology), search |-> 1,
          chat |-> <<messages>>, insert |-> <<>>, stored |-> <<>>]
    ELSE LET doc == [query |-> query, answer |-> Val(lr.content),
                     source |-> "LLM Response"]
         IN [raised |-> FALSE, result |-> Strip(Val(lr.content)), search |-> 1,
             chat |-> <<messages>>, insert |-> <<doc>>,
             stored |-> IF insert_raises THEN <<>> ELSE <<doc>>]

\* Variant: the answer of the LLM is not inserted into the index.
LlmFallback_no_insert(query, lr, insert_raises) ==
    LET messages == <<[role |-> "user", content |-> query]>> IN
    IF lr.raises
    THEN [raised |-> TRUE, result |-> <<>>, search |-> 1,
          chat |-> <<messages>>, insert |-> <<>>, stored |-> <<>>]
    ELSE IF BlankLlmText(lr.content)
    THEN [raised |-> FALSE, result |-> Strip(LlmApology), search |-> 1,
          chat |-> <<messages>>, insert |-> <<>>, stored |-> <<>>]
    ELSE [raised |-> FALSE, result |-> Strip(Val(lr.content)), search |-> 1,
          chat |-> <<messages>>, insert |-> <<>>, stored |-> <<>>]

\* Variant: an exception of index.insert leaves query_ragbot.
LlmFallback_insert_surfaces(query, lr, insert_raises) ==
    LET messages == <<[role |-> "user", content |-> query]>> IN
    IF lr.raises
    THEN [raised |-> TRUE, result |-> <<>>, search |-> 1,
          chat |-> <<messages>>, insert |-> <<>>, stored |-> <<>>]
    ELSE IF BlankLlmText(lr.content)
    THEN [raised |-> FALSE, result |-> Strip(LlmApology), search |-> 1,
          chat |-> <<messages>>, insert |-> <<>>, stored |-> <<>>]
    ELSE LET doc == [query |-> query, answer |-> Val(lr.content),
                     source |-> "LLM Response"]
         IN IF insert_raises
            THEN [raised |-> TRUE, result |-> <<>>, search |-> 1,
                  chat |-> <<messages>>, insert |-> <<doc>>, stored |-> <<>>]
            ELSE [raised |-> FALSE, result |-> Strip(Val(lr.content)),
                  search |-> 1, chat |-> <<messages>>, insert |-> <<doc>>,
                  stored |-> <<doc>>]

\* The fallback of query_ragbot (step 5): the direct LLM call and the insert.
LlmFallback(query, lr, insert_raises) ==
    LET messages == <<[role |-> "user", content |-> query]>> IN
    IF lr.raises
    THEN [raised |-> TRUE, result |-> <<>>, search |-> 1,
          chat |-> <<messages>>, insert |-> <<>>, stored |-> <<>>]
    ELSE IF BlankLlmText(lr.content)
    THEN [raised |-> FALSE, result |-> Strip(LlmApology), search |-> 1,
          chat |-> <<messages>>, insert |-> <<>>, stored |-> <<>>]
    ELSE LET doc == [query |-> query, answer |-> Val(lr.content),
                     source |-> "LLM Response"]
         IN [raised |-> FALSE, result |-> Strip(Val(lr.content)), search |-> 1,
             chat |-> <<messages>>, insert |-> <<doc>>,
             stored |-> IF insert_raises THEN <<>> ELSE <<doc>>]

\* Variant: only the empty query is turned away.
RejectedQuery_empty_only(query) == ~Truthy(query)

\* if not query or not query.strip()
RejectedQuery(query) == ~Truthy(query) \/ ~Truthy(Strip(query))

\* query_ragbot, given the outcome high_confidence of the test of step 4.
query_ragbot_routed(high_confidence, query, sr, lr, insert_raises) ==
    IF RejectedQuery(query)
    THEN [raised |-> FALSE, result |-> RejectionMsg] @@ NoCalls
    ELSE IF sr.raises
    THEN [raised |-> TRUE, result |-> <<>>, search |-> 1,
          chat |-> <<>>, insert |-> <<>>, stored |-> <<>>]
    ELSE IF high_confidence /\ UsableRagText(sr.response)
    THEN [raised |-> FALSE, result |-> Strip(Val(sr.response)), search |-> 1,
          chat |-> <<>>, insert |-> <<>>, stored |-> <<>>]
    ELSE LlmFallback(query, lr, insert_raises)

\* query_ragbot under the default setting of the threshold.
query_ragbot(query, sr, lr, insert_raises) ==
    query_ragbot_routed(~sr.raises /\ HighConfidence(sr.source_nodes),
                        query, sr, lr, insert_raises)

\* query_ragbot under a setting that holds threshold.
query_ragbot_at(threshold, query, sr, lr, insert_raises) ==
    query_ragbot_routed(~sr.raises
                            /\ HighConfidenceAt(sr.source_nodes, threshold),
                        query, sr, lr, insert_raises)

\* The provider outcomes the model draws from.
ScoreValues == {1, 3, 5}
NodeValues == {None} \cup {Some(v) : v \in ScoreValues}
NodeLists == UNION {[1..n -> NodeValues] : n \in 0..MaxNodes}
RagTexts == {None, Some(<<>>), Some(Rep(WS, 2)), Some(EmptyResponse),
             Some(Rep("r", 2)), Some(Concat(Rep(WS, 1), Concat(Rep("r", 2), Rep(WS, 1))))}
LlmTexts == {None, Some(<<>>), Some(Rep(WS, 1)),
             Some(Rep("l", 2)), Some(Concat(Rep(WS, 1), Rep("l", 2)))}
SearchRaises == [raises |-> TRUE, response |-> None, source_nodes |-> <<>>]
SearchOutcomes ==
    {SearchRaises} \cup
    [raises : {FALSE}, response : RagTexts, source_nodes : NodeLists]
LlmRaises == [raises |-> TRUE, content |-> None]
LlmOutcomes == {LlmRaises} \cup [raises : {FALSE}, content : LlmTexts]

\* The outcomes drawn inside a request: one of each kind the endpoint can tell
\* apart (a failure, a confident answer, no confident answer; a failure, a
\* text, no text).
RequestSearchOutcomes ==
    {SearchRaises,
     [raises |-> FALSE, response |-> Some(Rep("r", 2)), source_nodes |-> <<Some(5)>>],
     [raises |-> FALSE, response |-> None, source_nodes |-> <<>>]}
RequestLlmOutcomes ==
    {LlmRaises,
     [raises |-> FALSE, content |-> Some(Concat(Rep(WS, 1), Rep("l", 2)))],
     [raises |-> FALSE, content |-> Some(<<>>)]}

(***************************************************************************)
(* JWTAuth: the cache of Google's public keys.  A key set is the set of    *)
(* the key ids it holds; fetch is the outcome of the request to Google:    *)
(* it fails (the request or the conversion of a key raises), or it yields  *)
(* a key set, which is empty when the document lists no key.               *)
(***************************************************************************)
\* current_time - _google_keys_cache_time < _google_keys_cache_ttl, with the
\* hour of the cache counted as KeysTtl ticks.
cache_valid(cache, cache_time, current_time) ==
    ~IsNone(cache) /\ current_time - cache_time < KeysTtl

\* JWTAuth._get_google_public_keys: the keys returned, whether a fetch was
\* attempted, and the cache and its time afterwards.
_get_google_public_keys(cache, cache_time, current_time, fetch) ==
    IF cache_valid(cache, cache_time, current_time)
    THEN [keys |-> cache, fetched |-> FALSE, cache |-> cache,
          time |-> cache_time]
    ELSE IF fetch.ok
    THEN [keys |-> Some(fetch.keys), fetched |-> TRUE,
          cache |-> Some(fetch.keys), time |-> current_time]
    ELSE [keys |-> cache, fetched |-> TRUE, cache |-> cache,
          time |-> cache_time]

\* JWTAuth.verify_google_token on the keys it got: `if not google_keys`
\* rejects for want of keys, an unknown key id rejects, and jwt.decode
\* decides the rest.
token_verdict(google_keys, token) ==
    IF IsNone(google_keys) THEN "no_keys"
    ELSE IF Val(google_keys) = {} THEN "no_keys"
    ELSE IF token.kid \notin Val(google_keys) THEN "unknown_kid"
    ELSE IF token.valid THEN "verified"
    ELSE "invalid"

(***************************************************************************)
(* State.                                                                  *)
(***************************************************************************)
VARIABLES
    redis,      \* the key-value store: key -> payload
    clock,      \* the next value of datetime.utcnow()
    uuid_next,  \* the number of the next uuid4()
    started,    \* number of requests received so far
    pc,         \* per worker: where its request stands
    op,         \* per worker: the request (kind, user_email, question, thread_id)
    thread_id,  \* per worker: the local thread_id of query_endpoint
    user_data,  \* per worker: the snapshot a ChatService call works on
    stamp,      \* per worker: the uuid and the now of the running ChatService call
    answer,     \* per worker: the local answer of query_endpoint
    response,   \* per worker: what the endpoint answered
    hist,       \* per worker, for the properties: what the request did so far
    owner,      \* for the properties: thread id -> the user it was created for
    log,        \* for the properties: per user, how its finished queries ended
    rin,        \* router check: the inputs of one query_ragbot call
    rout,       \* router check: the outcome of that call
    call,       \* direct call of a handler or service method: its arguments
    ret,        \* direct call: its outcome
    ttl,        \* direct calls: key -> the ticks the key still lives
    idle,       \* for the properties: key -> the ticks since its last write
    _google_keys_cache,      \* auth.py: the cached key set, or None
    _google_keys_cache_time  \* auth.py: time.time() of the last fetch

vars == <<redis, clock, uuid_next, started, pc, op, thread_id, user_data,
          stamp, answer, response, hist, owner, log, rin, rout, call, ret,
          ttl, idle, _google_keys_cache, _google_keys_cache_time>>

authVars == <<_google_keys_cache, _google_keys_cache_time>>

routerVars == <<rin, rout, call, ret, ttl, idle, authVars>>

\* Thread ids are the strings uuid4() makes; the empty string is no uuid.
Uuid(n) == <<"uuid", n>>
EmptyId == <<>>
\* A well-formed id that uuid4() never returned.
BogusId == Uuid(0)

\* The questions the clients send.
Questions == {<<>>, Rep(WS, 2), Rep("q", 1), Rep("q", MaxQuestionLen),
              Rep("q", MaxQuestionLen + 1)}

\* The thread ids a client can put in a request: none, the empty string, an
\* id some user was given, or an id nobody was given.
ClientThreadIds ==
    {None, Some(EmptyId), Some(BogusId)} \cup {Some(t) : t \in DOMAIN owner}

NoOp == [kind |-> "none"]
NoStamp == [id |-> EmptyId, now |-> 0]
NoResponse == [status |-> 0]
NoHist == [reads |-> 0, writes |-> 0, router |-> 0, search |-> 0, chat |-> 0,
           insert |-> 0, stored |-> 0, llm |-> None, raised |-> FALSE,
           value_error |-> None, fault |-> None, quota_seen |-> None,
           pre |-> None]
NoLog == [answered |-> 0, limited |-> 0, failed |-> 0]
NotCalled == [called |-> FALSE]
NoInput == [query |-> <<>>, sr |-> SearchRaises, lr |-> LlmRaises,
            insert_raises |-> FALSE]

NoCall == [fn |-> "none"]

\* The workers are free and nothing was counted yet.
InitWorkers ==
    /\ clock = 1
    /\ uuid_next = 1
    /\ started = 0
    /\ pc = [p \in Procs |-> "idle"]
    /\ op = [p \in Procs |-> NoOp]
    /\ thread_id = [p \in Procs |-> None]
    /\ user_data = [p \in Procs |-> DefaultData]
    /\ stamp = [p \in Procs |-> NoStamp]
    /\ answer = [p \in Procs |-> <<>>]
    /\ response = [p \in Procs |-> NoResponse]
    /\ hist = [p \in Procs |-> NoHist]
    /\ owner = <<>>
    /\ log = [u \in Users |-> NoLog]
    /\ idle = [k \in Keys |-> None]
    /\ _google_keys_cache = None
    /\ _google_keys_cache_time = 0

\* The store holds nothing.
InitChat ==
    /\ redis = [k \in Keys |-> Nil]
    /\ ttl = FreshTtl(redis)
    /\ InitWorkers

Init ==
    /\ InitChat
    /\ rin = NoInput
    /\ rout = NotCalled
    /\ call = NoCall
    /\ ret = NotCalled

(***************************************************************************)
(* Helpers of the actions.                                                 *)
(***************************************************************************)
\* The request moves on inside its handler.
Goto(p, label) ==
    /\ pc' = [pc EXCEPT ![p] = label]
    /\ UNCHANGED <<response, log>>

\* The endpoint answers: it returns, or it raises an HTTPException or lets an
\* exception through (status 500).  The log counts how the queries of each
\* user ended: with an answer, with the rate-limit error, otherwise.
Logged(l, status) ==
    IF status = 200 THEN [l EXCEPT !.answered = @ + 1]
    ELSE IF status = 429 THEN [l EXCEPT !.limited = @ + 1]
    ELSE [l EXCEPT !.failed = @ + 1]

Answer(p, resp) ==
    /\ pc' = [pc EXCEPT ![p] = "done"]
    /\ response' = [response EXCEPT ![p] = resp]
    /\ log' = IF op[p].kind = "query"
              THEN [log EXCEPT ![op[p].user_email] = Logged(@, resp.status)]
              ELSE log

HttpError(status, detail) == [status |-> status, detail |-> detail]

\* uuid4() followed by datetime.utcnow() at the head of a ChatService call.
TakeStamp(p) ==
    /\ stamp' = [stamp EXCEPT ![p] = [id |-> Uuid(uuid_next), now |-> clock]]
    /\ uuid_next' = uuid_next + 1
    /\ clock' = clock + 1

NoStampTaken == UNCHANGED <<stamp, uuid_next, clock>>

\* No request is being handled.
Quiet == \A q \in Procs : pc[q] \in {"idle", "done"}

\* not thread_id
NoThreadId(tid) == IF IsNone(tid) THEN TRUE ELSE Val(tid) = EmptyId

(***************************************************************************)
(* A worker receives a request.                                            *)
(***************************************************************************)
\* The worker is free or done with its last request; the locals of the handler
\* start afresh.  hist.pre keeps the store as it is now when the request
\* starts while no other request is being handled.
Receive(p, request) ==
    /\ pc[p] \in {"idle", "done"}
    /\ started < MaxRequests
    /\ started' = started + 1
    /\ op' = [op EXCEPT ![p] = request]
    /\ thread_id' = [thread_id EXCEPT ![p] = None]
    /\ user_data' = [user_data EXCEPT ![p] = DefaultData]
    /\ stamp' = [stamp EXCEPT ![p] = NoStamp]
    /\ answer' = [answer EXCEPT ![p] = <<>>]
    /\ hist' = [hist EXCEPT ![p] =
           [NoHist EXCEPT !.pre = IF Quiet THEN Some(redis) ELSE None]]
    /\ UNCHANGED <<redis, clock, uuid_next, owner, log, routerVars>>

\* The worker enters the handler at the given label.
Enter(p, label) ==
    /\ pc' = [pc EXCEPT ![p] = label]
    /\ response' = [response EXCEPT ![p] = NoResponse]

\* POST /query: query_endpoint is entered with question and thread_id.
QueryStart(p, U, Q, T) ==
    \E u \in U, q \in Q, t \in T :
        /\ Receive(p, [kind |-> "query", user_email |-> u, question |-> q,
                       thread_id |-> t])
        /\ Enter(p, "validate")

\* GET /chat/threads/{thread_id}
GetThreadStart(p, U, T) ==
    \E u \in U, t \in T \ {None} :
        /\ Receive(p, [kind |-> "get_thread", user_email |-> u,
                       thread_id |-> t])
        /\ Enter(p, "get_thread")

\* ChatService.delete_thread(thread_id, user_email)
DeleteStart(p, U, T) ==
    \E u \in U, t \in T \ {None} :
        /\ Receive(p, [kind |-> "delete_thread", user_email |-> u,
                       thread_id |-> t])
        /\ Enter(p, "delete_read")

(***************************************************************************)
(* query_endpoint, one action per store access or provider call.           *)
(***************************************************************************)
\* query.py 34-41: the input validation.
Validate(p) ==
    /\ pc[p] = "validate"
    /\ LET question == op[p].question IN
       IF ~Truthy(question) \/ ~Truthy(Strip(question))
       THEN Answer(p, HttpError(400, "Question cannot be empty"))
       ELSE IF StrLen(question) > MaxQuestionLen
       THEN Answer(p, HttpError(400, "Question too long (max 1000 characters)"))
       ELSE Goto(p, "quota")
    /\ UNCHANGED <<redis, started, op, thread_id, user_data, answer, hist,
                   owner, routerVars>>
    /\ NoStampTaken

\* query.py 44: chat_service.can_user_send_message(user_email)
CheckQuota(p) ==
    /\ pc[p] = "quota"
    /\ hist' = [hist EXCEPT ![p].reads = @ + 1,
                            ![p].quota_seen =
                Some(get_user_requests_available(redis, op[p].user_email))]
    /\ IF can_user_send_message(redis, op[p].user_email)
       THEN Goto(p, "resolve")
       ELSE Goto(p, "limit")
    /\ UNCHANGED <<redis, started, op, thread_id, user_data, answer, owner,
                   routerVars>>
    /\ NoStampTaken

\* query.py 45-50: the second read and the 429 with remaining and maximum.
ReportLimit(p) ==
    /\ pc[p] = "limit"
    /\ hist' = [hist EXCEPT ![p].reads = @ + 1]
    /\ Answer(p, [status |-> 429,
                  remaining |-> get_user_requests_available(redis, op[p].user_email),
                  max |-> MAX_MESSAGES_PER_USER])
    /\ UNCHANGED <<redis, started, op, thread_id, user_data, answer, owner,
                   routerVars>>
    /\ NoStampTaken

\* Variant: a question of exactly 50 characters is cut as well.
thread_title_from_limit(question) ==
    IF StrLen(question) >= TitleLen
    THEN Concat(Prefix(question, TitleLen), Ellipsis)
    ELSE question

\* query.py 55: question[:50] + "..." if len(question) > 50 else question
thread_title(question) ==
    IF StrLen(question) > TitleLen
    THEN Concat(Prefix(question, TitleLen), Ellipsis)
    ELSE question

\* query.py 53-56 and create_thread up to its write: the title, the new id,
\* the read of the record and the thread appended to the snapshot.
CreateThreadRead(p) ==
    /\ pc[p] = "resolve"
    /\ NoThreadId(op[p].thread_id)
    /\ TakeStamp(p)
    /\ user_data' = [user_data EXCEPT ![p] =
           WithThread(_get_user_data(redis, op[p].user_email),
                      Uuid(uuid_next), thread_title(op[p].question), clock)]
    /\ hist' = [hist EXCEPT ![p].reads = @ + 1]
    /\ Goto(p, "create_write")
    /\ UNCHANGED <<redis, started, op, thread_id, answer, owner, routerVars>>

\* create_thread: _save_user_data and the return of the new id.
CreateThreadWrite(p) ==
    /\ pc[p] = "create_write"
    /\ redis' = _save_user_data(redis, op[p].user_email, user_data[p])
    /\ thread_id' = [thread_id EXCEPT ![p] = Some(stamp[p].id)]
    /\ owner' = owner @@ (stamp[p].id :> op[p].user_email)
    /\ hist' = [hist EXCEPT ![p].writes = @ + 1]
    /\ Goto(p, "user_read")
    /\ UNCHANGED <<started, op, user_data, answer, routerVars>>
    /\ NoStampTaken

\* Variant: a thread of any user counts.
thread_missing_for_all(r, tid, user_email) ==
    \A u \in Users : IsNone(get_thread(r, tid, u))

\* query.py 60-61: thread = get_thread(...); if not thread
thread_missing(r, tid, user_email) == IsNone(get_thread(r, tid, user_email))

\* query.py 60-63: get_thread and the 404.
VerifyThread(p) ==
    /\ pc[p] = "resolve"
    /\ ~NoThreadId(op[p].thread_id)
    /\ hist' = [hist EXCEPT ![p].reads = @ + 1]
    /\ IF thread_missing(redis, Val(op[p].thread_id), op[p].user_email)
       THEN /\ Answer(p, HttpError(404, "Thread not found"))
            /\ UNCHANGED thread_id
       ELSE /\ Goto(p, "user_read")
            /\ thread_id' = [thread_id EXCEPT ![p] = op[p].thread_id]
    /\ UNCHANGED <<redis, started, op, user_data, answer, owner, routerVars>>
    /\ NoStampTaken

\* add_message_to_thread up to its write: the new id, the read of the record,
\* the scan for the thread.  thread_found is FALSE when the scan finds nothing
\* (the call then raises ValueError and writes nothing).
thread_found(r, p) ==
    ~IsNone(get_thread(r, Val(thread_id[p]), op[p].user_email))

AddMessageRead(p, role, content) ==
    /\ TakeStamp(p)
    /\ hist' = [hist EXCEPT ![p].reads = @ + 1,
                            ![p].value_error =
                                IF thread_found(redis, p) THEN @ ELSE Some(role)]
    /\ IF thread_found(redis, p)
       THEN user_data' = [user_data EXCEPT ![p] =
                WithMessage(_get_user_data(redis, op[p].user_email),
                            Val(thread_id[p]), Uuid(uuid_next), role, content,
                            clock)]
       ELSE UNCHANGED user_data

\* add_message_to_thread: _save_user_data.
AddMessageWrite(p) ==
    /\ redis' = _save_user_data(redis, op[p].user_email, user_data[p])
    /\ hist' = [hist EXCEPT ![p].writes = @ + 1]

\* Variant: a failed append of the user message is logged only.
UserAppendFailure_swallowed(p) == Goto(p, "router")

\* query.py 70-72: except ValueError: raise HTTPException(500, ...)
UserAppendFailure(p) ==
    Answer(p, HttpError(500, "Failed to save user message"))

\* query.py 67-72: the user message; a ValueError becomes the 500.
AddUserRead(p) ==
    /\ pc[p] = "user_read"
    /\ AddMessageRead(p, "user", op[p].question)
    /\ IF thread_found(redis, p)
       THEN Goto(p, "user_write")
       ELSE UserAppendFailure(p)
    /\ UNCHANGED <<redis, started, op, thread_id, answer, owner, routerVars>>

AddUserWrite(p) ==
    /\ pc[p] = "user_write"
    /\ AddMessageWrite(p)
    /\ Goto(p, "router")
    /\ UNCHANGED <<started, op, thread_id, user_data, answer, owner, routerVars>>
    /\ NoStampTaken

\* Variant: an exception of query_ragbot is answered with the apology.
RouterFailure_apology(p) ==
    /\ Goto(p, "assistant_read")
    /\ answer' = [answer EXCEPT ![p] = EndpointApology]

\* query.py 76: nothing catches an exception of query_ragbot; it leaves the
\* endpoint and the client gets the status 500.
RouterFailure(p) ==
    /\ Answer(p, HttpError(500, "Internal Server Error"))
    /\ UNCHANGED answer

\* query.py 76-80: query_ragbot(question); an exception of it leaves the
\* endpoint as status 500; an empty answer is replaced.
CallRouter(p, SO, LO) ==
    /\ pc[p] = "router"
    /\ \E sr \in SO, lr \in LO, insert_raises \in BOOLEAN :
         LET r == query_ragbot(op[p].question, sr, lr, insert_raises) IN
         /\ hist' = [hist EXCEPT ![p].router = @ + 1,
                                 ![p].search = @ + r.search,
                                 ![p].chat = @ + Len(r.chat),
                                 ![p].insert = @ + Len(r.insert),
                                 ![p].stored = @ + Len(r.stored),
                                 ![p].raised = r.raised,
                                 ![p].llm = IF r.chat = <<>> \/ lr.raises
                                            THEN None ELSE Some(lr.content)]
         /\ IF r.raised
            THEN RouterFailure(p)
            ELSE /\ Goto(p, "assistant_read")
                 /\ answer' = [answer EXCEPT ![p] =
                        IF ~Truthy(r.result) THEN EndpointApology ELSE r.result]
    /\ UNCHANGED <<redis, started, op, thread_id, user_data, owner, routerVars>>
    /\ NoStampTaken

\* query.py 83-88: the assistant message; a ValueError is logged only.
AddAssistantRead(p) ==
    /\ pc[p] = "assistant_read"
    /\ AddMessageRead(p, "assistant", answer[p])
    /\ IF thread_found(redis, p)
       THEN Goto(p, "assistant_write")
       ELSE Goto(p, "decrement_read")
    /\ UNCHANGED <<redis, started, op, thread_id, answer, owner, routerVars>>

AddAssistantWrite(p) ==
    /\ pc[p] = "assistant_write"
    /\ AddMessageWrite(p)
    /\ Goto(p, "decrement_read")
    /\ UNCHANGED <<started, op, thread_id, user_data, answer, owner, routerVars>>
    /\ NoStampTaken

QueryResponse(p) ==
    [status |-> 200, answer |-> answer[p], thread_id |-> Val(thread_id[p])]

\* query.py 91 and decrement_user_requests up to its write; with nothing left
\* to decrement the call returns without a write and the endpoint answers.
DecrementRead(p) ==
    /\ pc[p] = "decrement_read"
    /\ hist' = [hist EXCEPT ![p].reads = @ + 1]
    /\ LET data == _get_user_data(redis, op[p].user_email)
           current_requests == data.requests_available
       IN IF decrement_allowed(current_requests)
          THEN /\ user_data' = [user_data EXCEPT ![p] = Decremented(data)]
               /\ Goto(p, "decrement_write")
          ELSE /\ user_data' = [user_data EXCEPT ![p] = data]
               /\ Answer(p, QueryResponse(p))
    /\ UNCHANGED <<redis, started, op, thread_id, answer, owner, routerVars>>
    /\ NoStampTaken

\* decrement_user_requests: _save_user_data; query.py 95: the response.
DecrementWrite(p) ==
    /\ pc[p] = "decrement_write"
    /\ redis' = _save_user_data(redis, op[p].user_email, user_data[p])
    /\ hist' = [hist EXCEPT ![p].writes = @ + 1]
    /\ Answer(p, QueryResponse(p))
    /\ UNCHANGED <<started, op, thread_id, user_data, answer, owner, routerVars>>
    /\ NoStampTaken

\* GET /ingest/?q=...: query_rag is entered with q.
QueryRagStart(p, U, Q) ==
    \E u \in U, q \in Q :
        /\ Receive(p, [kind |-> "query_rag", user_email |-> u, question |-> q])
        /\ Enter(p, "query_rag")

\* ingest.py 27-44: query_rag validates q, calls query_ragbot(q) and returns
\* the answer; it calls no operation of ChatService.
QueryRag(p, SO, LO) ==
    /\ pc[p] = "query_rag"
    /\ LET q == op[p].question IN
       IF ~Truthy(q) \/ ~Truthy(Strip(q))
       THEN /\ Answer(p, HttpError(400, "Query parameter cannot be empty"))
            /\ UNCHANGED <<hist, answer>>
       ELSE IF StrLen(q) > MaxQuestionLen
       THEN /\ Answer(p, HttpError(400, "Query too long (max 1000 characters)"))
            /\ UNCHANGED <<hist, answer>>
       ELSE \E sr \in SO, lr \in LO, insert_raises \in BOOLEAN :
               LET r == query_ragbot(q, sr, lr, insert_raises)
                   text == IF ~Truthy(r.result) THEN EndpointApology
                           ELSE r.result
               IN /\ hist' = [hist EXCEPT ![p].router = @ + 1,
                                          ![p].search = @ + r.search,
                                          ![p].chat = @ + Len(r.chat),
                                          ![p].insert = @ + Len(r.insert),
                                          ![p].stored = @ + Len(r.stored),
                                          ![p].raised = r.raised]
                  /\ IF r.raised
                     THEN /\ Answer(p, HttpError(500, "Internal Server Error"))
                          /\ UNCHANGED answer
                     ELSE /\ answer' = [answer EXCEPT ![p] = text]
                          /\ Answer(p, [status |-> 200, query |-> q,
                                        response |-> text])
    /\ UNCHANGED <<redis, started, op, thread_id, user_data, owner, routerVars>>
    /\ NoStampTaken

(***************************************************************************)
(* The other operations on the chat state.                                 *)
(***************************************************************************)
\* chat.py get_thread -> ChatHandler.get_thread_by_id: one read; ValueError
\* ("Thread not found") becomes the 404.
GetThread(p) ==
    /\ pc[p] = "get_thread"
    /\ hist' = [hist EXCEPT ![p].reads = @ + 1]
    /\ LET thread == get_thread(redis, Val(op[p].thread_id), op[p].user_email)
       IN IF IsNone(thread)
          THEN Answer(p, HttpError(404, "Thread not found"))
          ELSE Answer(p, [status |-> 200, thread |-> Val(thread)])
    /\ UNCHANGED <<redis, started, op, thread_id, user_data, answer, owner,
                   routerVars>>
    /\ NoStampTaken

\* ChatService.delete_thread up to its write: the read and the filter; it
\* returns False without a write when the filter removed nothing.
DeleteRead(p) ==
    /\ pc[p] = "delete_read"
    /\ hist' = [hist EXCEPT ![p].reads = @ + 1]
    /\ LET data == _get_user_data(redis, op[p].user_email)
           kept == WithoutThread(data, Val(op[p].thread_id))
       IN /\ user_data' = [user_data EXCEPT ![p] = kept]
          /\ IF Len(kept.threads) = Len(data.threads)
             THEN Answer(p, [status |-> 0, returned |-> FALSE])
             ELSE Goto(p, "delete_write")
    /\ UNCHANGED <<redis, started, op, thread_id, answer, owner, routerVars>>
    /\ NoStampTaken

\* ChatService.delete_thread: _save_user_data and the return of True.
DeleteWrite(p) ==
    /\ pc[p] = "delete_write"
    /\ redis' = _save_user_data(redis, op[p].user_email, user_data[p])
    /\ hist' = [hist EXCEPT ![p].writes = @ + 1]
    /\ Answer(p, [status |-> 0, returned |-> TRUE])
    /\ UNCHANGED <<started, op, thread_id, user_data, answer, owner, routerVars>>
    /\ NoStampTaken

\* DELETE /chat/threads/{thread_id}
DeleteThreadStart(p, U, T) ==
    \E u \in U, t \in T \ {None} :
        /\ Receive(p, [kind |-> "delete_endpoint", user_email |-> u,
                       thread_id |-> t])
        /\ Enter(p, "delete_endpoint")

\* chat.py 137-145: the endpoint calls chat_handler.delete_thread; ChatHandler
\* defines no delete_thread, so the call raises AttributeError, which the
\* endpoint's except Exception turns into the 500.  The store is not touched.
DeleteThreadEndpoint(p) ==
    /\ pc[p] = "delete_endpoint"
    /\ Answer(p, HttpError(500, "Failed to delete thread"))
    /\ UNCHANGED <<redis, started, op, thread_id, user_data, answer, hist,
                   owner, routerVars>>
    /\ NoStampTaken

(***************************************************************************)
(* ChatHandler: the paginated listings, called on their arguments.         *)
(***************************************************************************)
ThreadsListingCall ==
    /\ ~ret.called
    /\ call.fn = "get_user_threads_paginated"
    /\ ret' = [called |-> TRUE,
               out |-> get_user_threads_paginated(redis, call.user_email,
                           call.page, call.page_size, call.sort_by,
                           call.sort_order)]
    /\ UNCHANGED <<redis, clock, uuid_next, started, pc, op, thread_id,
                   user_data, stamp, answer, response, hist, owner, log, rin,
                   rout, call, ttl, idle, authVars>>

MessagesListingCall ==
    /\ ~ret.called
    /\ call.fn = "get_thread_messages_paginated"
    /\ ret' = [called |-> TRUE,
               out |-> get_thread_messages_paginated(redis, call.thread_id,
                           call.user_email, call.page, call.page_size,
                           call.sort_order)]
    /\ UNCHANGED <<redis, clock, uuid_next, started, pc, op, thread_id,
                   user_data, stamp, answer, response, hist, owner, log, rin,
                   rout, call, ttl, idle, authVars>>

\* A client walks a listing: it asks for page 1 and then, as long as the
\* page returned has has_next, for the next page, with the other arguments
\* and the store as they are.  ret.pages keeps the items of the pages so far.
ListingWalk ==
    /\ call.fn \in {"get_user_threads_paginated",
                    "get_thread_messages_paginated"}
    /\ IF ret.called THEN ~ret.out.raised /\ ret.out.listing.has_next
       ELSE call.page = 1
    /\ LET page == IF ret.called THEN call.page + 1 ELSE call.page
           out == IF call.fn = "get_user_threads_paginated"
                  THEN get_user_threads_paginated(redis, call.user_email,
                           page, call.page_size, call.sort_by,
                           call.sort_order)
                  ELSE get_thread_messages_paginated(redis, call.thread_id,
                           call.user_email, page, call.page_size,
                           call.sort_order)
       IN /\ call' = [call EXCEPT !.page = page]
          /\ ret' = [called |-> TRUE, out |-> out,
                     pages |-> (IF ret.called THEN ret.pages ELSE <<>>)
                               \o <<IF out.raised THEN <<>>
                                    ELSE out.listing.items>>]
    /\ UNCHANGED <<redis, clock, uuid_next, started, pc, op, thread_id,
                   user_data, stamp, answer, response, hist, owner, log, rin,
                   rout, ttl, idle, authVars>>

\* An operation of ChatService called on its arguments.
ServiceCall ==
    /\ ~ret.called
    /\ call.fn \in ServiceFns
    /\ LET o == ServiceOutcome(redis, call, Uuid(uuid_next), clock) IN
       /\ ret' = [called |-> TRUE,
                  read |-> redis[_get_user_key(call.user_email)],
                  out |-> o]
       /\ redis' = o.store
       /\ ttl' = ttl_after(ttl, call.user_email, o.saved)
    /\ uuid_next' = uuid_next + 1
    /\ clock' = clock + 1
    /\ UNCHANGED <<started, pc, op, thread_id, user_data, stamp, answer,
                   response, hist, owner, log, rin, rout, call, idle, authVars>>

\* The thread ids and the calls of a sequence of direct calls: the ids of the
\* stored threads of the user and an id that no thread has.
StepThreadIds(r, u) ==
    {Uuid(0)} \cup {get_user_threads(r, u)[i].id :
                       i \in 1..Len(get_user_threads(r, u))}

StepCalls(r, u) ==
    [fn : {"get_user_threads", "get_user_requests_available",
           "can_user_send_message", "decrement_user_requests"},
     user_email : {u}]
    \cup [fn : {"get_thread", "delete_thread"}, user_email : {u},
          thread_id : StepThreadIds(r, u)]
    \cup [fn : {"create_thread"}, user_email : {u}, title : {Rep("q", 1)}]
    \cup [fn : {"add_message_to_thread"}, user_email : {u},
          thread_id : StepThreadIds(r, u), content : {Rep("q", 1)},
          role : {"user", "assistant"}]

StepListings(r, u) ==
    [fn : {"get_user_threads_paginated"}, user_email : {u}, page : {1},
     page_size : {MaxItems}, sort_by : {"created_at"}, sort_order : {"desc"}]
    \cup [fn : {"get_thread_messages_paginated"},
          thread_id : StepThreadIds(r, u), user_email : {u}, page : {1},
          page_size : {MaxItems}, sort_order : {"desc"}]

\* One more call of an operation of ChatService, on the store as it is.
ServiceStep(u) ==
    /\ started < MaxCalls
    /\ \E c \in StepCalls(redis, u) :
          LET o == ServiceOutcome(redis, c, Uuid(uuid_next), clock) IN
          /\ call' = c
          /\ ret' = [called |-> TRUE, read |-> redis[_get_user_key(u)],
                     out |-> o]
          /\ redis' = o.store
          /\ ttl' = ttl_after(ttl, u, o.saved)
          /\ idle' = IF o.saved THEN [idle EXCEPT ![_get_user_key(u)] = Some(0)]
                     ELSE idle
    /\ started' = started + 1
    /\ uuid_next' = uuid_next + 1
    /\ clock' = clock + 1
    /\ UNCHANGED <<pc, op, thread_id, user_data, stamp, answer, response,
                   hist, owner, log, rin, rout, authVars>>

\* One more call of a paginated listing of ChatHandler.
ListingStep(u) ==
    /\ started < MaxCalls
    /\ \E c \in StepListings(redis, u) :
          /\ call' = c
          /\ ret' = [called |-> TRUE, read |-> redis[_get_user_key(u)],
                     out |-> IF c.fn = "get_user_threads_paginated"
                             THEN get_user_threads_paginated(redis,
                                      c.user_email, c.page, c.page_size,
                                      c.sort_by, c.sort_order)
                             ELSE get_thread_messages_paginated(redis,
                                      c.thread_id, c.user_email, c.page,
                                      c.page_size, c.sort_order)]
    /\ started' = started + 1
    /\ UNCHANGED <<redis, clock, uuid_next, pc, op, thread_id, user_data,
                   stamp, answer, response, hist, owner, log, rin, rout, ttl,
                   idle, authVars>>

\* One more call of an operation of ChatService made by an endpoint on behalf
\* of the authenticated user of the token payload a.
AccountCall(a) ==
    /\ started < MaxCalls
    /\ LET current_user == get_current_user(a)
           u == endpoint_user_email(current_user)
       IN \E c \in StepCalls(redis, u) :
             LET o == ServiceOutcome(redis, c, Uuid(uuid_next), clock) IN
             /\ call' = c @@ [current_user |-> current_user]
             /\ ret' = [called |-> TRUE, read |-> redis[_get_user_key(u)],
                        out |-> o]
             /\ redis' = o.store
             /\ ttl' = ttl_after(ttl, u, o.saved)
             /\ idle' = IF o.saved
                        THEN [idle EXCEPT ![_get_user_key(u)] = Some(0)]
                        ELSE idle
    /\ started' = started + 1
    /\ uuid_next' = uuid_next + 1
    /\ clock' = clock + 1
    /\ UNCHANGED <<pc, op, thread_id, user_data, stamp, answer, response,
                   hist, owner, log, rin, rout, authVars>>

\* The tokens presented and the outcomes of the request for the keys.
Tokens == [kid : {"k1", "k2"}, valid : BOOLEAN]
FetchFails == [ok |-> FALSE, keys |-> {}]
FetchOutcomes ==
    {FetchFails} \cup [ok : {TRUE}, keys : {{}, {"k1"}, {"k1", "k2"}}]

\* JWTAuth.verify_google_token(token), with _get_google_public_keys inside it
\* and time.time() read from the clock.
VerifyGoogleToken ==
    /\ started < MaxCalls
    /\ \E token \in Tokens, fetch \in FetchOutcomes :
          LET g == _get_google_public_keys(_google_keys_cache,
                       _google_keys_cache_time, clock, fetch)
          IN /\ call' = [fn |-> "verify_google_token", token |-> token,
                         fetch |-> fetch]
             /\ ret' = [called |-> TRUE,
                        before |-> [cache |-> _google_keys_cache,
                                    time |-> _google_keys_cache_time],
                        now |-> clock,
                        keys |-> g.keys,
                        fetched |-> g.fetched,
                        after |-> [cache |-> g.cache, time |-> g.time],
                        verdict |-> token_verdict(g.keys, token)]
             /\ _google_keys_cache' = g.cache
             /\ _google_keys_cache_time' = g.time
    /\ started' = started + 1
    /\ UNCHANGED <<redis, clock, uuid_next, pc, op, thread_id, user_data,
                   stamp, answer, response, hist, owner, log, rin, rout, ttl,
                   idle>>

\* JWTAuth.clear_google_keys_cache
ClearGoogleKeysCache ==
    /\ ~IsNone(_google_keys_cache)
    /\ _google_keys_cache' = None
    /\ _google_keys_cache_time' = 0
    /\ UNCHANGED <<redis, clock, uuid_next, started, pc, op, thread_id,
                   user_data, stamp, answer, response, hist, owner, log, rin,
                   rout, call, ret, ttl, idle>>

\* time.time() moves on by one tick.
TimePasses ==
    /\ clock < MaxClock
    /\ clock' = clock + 1
    /\ UNCHANGED <<redis, uuid_next, started, pc, op, thread_id, user_data,
                   stamp, answer, response, hist, owner, log, rin, rout, call,
                   ret, ttl, idle, authVars>>

\* One tick of time passes while some key lives.
Tick ==
    /\ \E k \in DOMAIN ttl : ttl[k] > 0
    /\ ttl' = ticked(ttl)
    /\ redis' = expired(redis, ticked(ttl))
    /\ idle' = [k \in DOMAIN idle |->
                  IF IsNone(idle[k]) THEN None ELSE Some(Val(idle[k]) + 1)]
    /\ UNCHANGED <<clock, uuid_next, started, pc, op, thread_id, user_data,
                   stamp, answer, response, hist, owner, log, rin, rout, call,
                   ret, authVars>>

(***************************************************************************)
(* The environment of the store: a call of the Redis client can raise, and *)
(* a record written by setex lapses when its TTL runs out.                 *)
(***************************************************************************)
\* The steps of query_endpoint that call the Redis client.
StoreSteps ==
    {"quota", "limit", "resolve", "create_write", "user_read", "user_write",
     "assistant_read", "assistant_write", "decrement_read", "decrement_write"}

\* redis_client.get or redis_client.setex raises (a connection error, a
\* timeout): no ChatService method and no handler of query_endpoint catches
\* it (query.py 70 and 86 catch ValueError only), the request ends with 500
\* and the step does nothing to the store.
StoreFails(p) ==
    /\ pc[p] \in StoreSteps
    /\ hist' = [hist EXCEPT ![p].fault = Some(pc[p])]
    /\ Answer(p, HttpError(500, "Internal Server Error"))
    /\ UNCHANGED <<redis, started, op, thread_id, user_data, answer, owner,
                   routerVars>>
    /\ NoStampTaken

\* The TTL of the record of a user runs out: the key holds nothing.
Expire(u) ==
    /\ redis[_get_user_key(u)] # Nil
    /\ redis' = [redis EXCEPT ![_get_user_key(u)] = Nil]
    /\ UNCHANGED <<clock, uuid_next, started, pc, op, thread_id, user_data,
                   stamp, answer, response, hist, owner, log, routerVars>>

(***************************************************************************)
(* Specifications.                                                         *)
(***************************************************************************)
\* Requests handled one at a time, by one worker; every request a client
\* can send, every kind of provider outcome.
SeqWorker == "r1"
SeqNext ==
    \/ /\ Quiet
       /\ \/ QueryStart(SeqWorker, Users, Questions, ClientThreadIds)
          \/ GetThreadStart(SeqWorker, Users, ClientThreadIds)
          \/ DeleteStart(SeqWorker, Users, ClientThreadIds)
    \/ Validate(SeqWorker)
    \/ CheckQuota(SeqWorker)
    \/ ReportLimit(SeqWorker)
    \/ CreateThreadRead(SeqWorker)
    \/ CreateThreadWrite(SeqWorker)
    \/ VerifyThread(SeqWorker)
    \/ AddUserRead(SeqWorker)
    \/ AddUserWrite(SeqWorker)
    \/ CallRouter(SeqWorker, RequestSearchOutcomes, RequestLlmOutcomes)
    \/ AddAssistantRead(SeqWorker)
    \/ AddAssistantWrite(SeqWorker)
    \/ DecrementRead(SeqWorker)
    \/ DecrementWrite(SeqWorker)
    \/ GetThread(SeqWorker)
    \/ DeleteRead(SeqWorker)
    \/ DeleteWrite(SeqWorker)

SeqSpec == Init /\ [][SeqNext]_vars

\* POST /query requests of one user handled concurrently by two workers, their
\* steps interleaved.  The questions are valid, the thread ids are none or ids
\* the user was given, the retrieval has no confident answer and the LLM
\* answers or fails.
QueryWorkers == Procs
ConcUsers == {"alice@x"}
ConcQuestions == {Rep("q", 1)}
ConcThreadIds == {None} \cup {Some(t) : t \in DOMAIN owner}
ConcSearchOutcomes ==
    {[raises |-> FALSE, response |-> None, source_nodes |-> <<>>]}
ConcLlmOutcomes ==
    {LlmRaises,
     [raises |-> FALSE, content |-> Some(Concat(Rep(WS, 1), Rep("l", 2)))]}
Next ==
    \/ \E p \in QueryWorkers :
          \/ QueryStart(p, ConcUsers, ConcQuestions, ConcThreadIds)
          \/ Validate(p)
          \/ CheckQuota(p)
          \/ ReportLimit(p)
          \/ CreateThreadRead(p)
          \/ CreateThreadWrite(p)
          \/ VerifyThread(p)
          \/ AddUserRead(p)
          \/ AddUserWrite(p)
          \/ CallRouter(p, ConcSearchOutcomes, ConcLlmOutcomes)
          \/ AddAssistantRead(p)
          \/ AddAssistantWrite(p)
          \/ DecrementRead(p)
          \/ DecrementWrite(p)

Spec == Init /\ [][Next]_vars

\* POST /query requests of one user, handled one at a time by one worker, in an
\* environment where a store call can fail and the record can lapse between
\* two steps of a request.
FaultWorker == "r1"
FaultNext ==
    \/ /\ Quiet
       /\ QueryStart(FaultWorker, ConcUsers, ConcQuestions, ConcThreadIds)
    \/ Validate(FaultWorker)
    \/ CheckQuota(FaultWorker)
    \/ ReportLimit(FaultWorker)
    \/ CreateThreadRead(FaultWorker)
    \/ CreateThreadWrite(FaultWorker)
    \/ VerifyThread(FaultWorker)
    \/ AddUserRead(FaultWorker)
    \/ AddUserWrite(FaultWorker)
    \/ CallRouter(FaultWorker, ConcSearchOutcomes, ConcLlmOutcomes)
    \/ AddAssistantRead(FaultWorker)
    \/ AddAssistantWrite(FaultWorker)
    \/ DecrementRead(FaultWorker)
    \/ DecrementWrite(FaultWorker)
    \/ StoreFails(FaultWorker)
    \/ \E u \in ConcUsers : Expire(u)

FaultSpec == Init /\ [][FaultNext]_vars

\* One worker serving the queries of one user and the DELETE requests for the
\* threads those queries made.
DeleteWorker == "r1"
DeletedThreadIds == {Some(t) : t \in DOMAIN owner}
DeleteNext ==
    \/ /\ Quiet
       /\ \/ QueryStart(DeleteWorker, ConcUsers, ConcQuestions, ConcThreadIds)
          \/ DeleteThreadStart(DeleteWorker, ConcUsers, DeletedThreadIds)
    \/ Validate(DeleteWorker)
    \/ CheckQuota(DeleteWorker)
    \/ ReportLimit(DeleteWorker)
    \/ CreateThreadRead(DeleteWorker)
    \/ CreateThreadWrite(DeleteWorker)
    \/ VerifyThread(DeleteWorker)
    \/ AddUserRead(DeleteWorker)
    \/ AddUserWrite(DeleteWorker)
    \/ CallRouter(DeleteWorker, ConcSearchOutcomes, ConcLlmOutcomes)
    \/ AddAssistantRead(DeleteWorker)
    \/ AddAssistantWrite(DeleteWorker)
    \/ DecrementRead(DeleteWorker)
    \/ DecrementWrite(DeleteWorker)
    \/ DeleteThreadEndpoint(DeleteWorker)

DeleteSpec == Init /\ [][DeleteNext]_vars

\* One worker serving the queries of one user while another calls
\* ChatService.delete_thread on the threads of that user.
WriterWorker == "r1"
DeleterWorker == "r2"
ResurrectNext ==
    \/ QueryStart(WriterWorker, ConcUsers, ConcQuestions, ConcThreadIds)
    \/ Validate(WriterWorker)
    \/ CheckQuota(WriterWorker)
    \/ ReportLimit(WriterWorker)
    \/ CreateThreadRead(WriterWorker)
    \/ CreateThreadWrite(WriterWorker)
    \/ VerifyThread(WriterWorker)
    \/ AddUserRead(WriterWorker)
    \/ AddUserWrite(WriterWorker)
    \/ CallRouter(WriterWorker, ConcSearchOutcomes, ConcLlmOutcomes)
    \/ AddAssistantRead(WriterWorker)
    \/ AddAssistantWrite(WriterWorker)
    \/ DecrementRead(WriterWorker)
    \/ DecrementWrite(WriterWorker)
    \/ DeleteStart(DeleterWorker, ConcUsers, ConcThreadIds)
    \/ DeleteRead(DeleterWorker)
    \/ DeleteWrite(DeleterWorker)

ResurrectSpec == Init /\ [][ResurrectNext]_vars

\* POST /query requests of one user, handled one at a time, with questions
\* around the length at which the title is cut and with no thread_id or the
\* empty one.
TitleWorker == "r1"
TitleQuestions ==
    {Rep(WS, 2), Rep("q", 1), Rep("q", TitleLen),
     Concat(Rep("q", TitleLen), Rep("x", 1)),
     Concat(Rep("q", TitleLen - 1), Rep(".", 4))}
TitleThreadIds == {None, Some(EmptyId)}
TitleNext ==
    \/ /\ Quiet
       /\ QueryStart(TitleWorker, ConcUsers, TitleQuestions, TitleThreadIds)
    \/ Validate(TitleWorker)
    \/ CheckQuota(TitleWorker)
    \/ ReportLimit(TitleWorker)
    \/ CreateThreadRead(TitleWorker)
    \/ CreateThreadWrite(TitleWorker)
    \/ AddUserRead(TitleWorker)
    \/ AddUserWrite(TitleWorker)
    \/ CallRouter(TitleWorker, RequestSearchOutcomes, RequestLlmOutcomes)
    \/ AddAssistantRead(TitleWorker)
    \/ AddAssistantWrite(TitleWorker)
    \/ DecrementRead(TitleWorker)
    \/ DecrementWrite(TitleWorker)

TitleSpec == Init /\ [][TitleNext]_vars

\* The paginated listings alone: the record of one user holds up to MaxItems
\* threads (created one after the other, updated at times that can tie, with
\* titles that differ in case) or one thread of up to MaxItems messages, and
\* a listing is called once with every page, page size and sort.
PageUser == "alice@x"
PageTitles == {Rep("a", 1), Rep("B", 1), Concat(Rep("a", 1), Rep("B", 1))}
PageTimes == {MaxItems + 1, MaxItems + 2}
PageNumbers == 1..(MaxItems + 1)
PageSizes == 1..MaxItems
SortBys == {"created_at", "updated_at", "title", "other"}
SortOrders == {"asc", "desc", "DESC"}

PageThreadLists ==
    {[i \in 1..Len(f) |->
        [id |-> Uuid(i), title |-> f[i].title, created_at |-> i,
         updated_at |-> f[i].updated_at, messages |-> <<>>]] :
     f \in UNION {[1..n -> [title : PageTitles, updated_at : PageTimes]] :
                  n \in 0..MaxItems}}

PageMessageLists ==
    {[i \in 1..Len(t) |->
        NewMessage(Uuid(i + 1), IF i % 2 = 1 THEN "user" ELSE "assistant",
                   Rep("q", 1), t[i])] :
     t \in {u \in UNION {[1..n -> PageTimes] : n \in 0..MaxItems} :
               \A i \in 1..Len(u) : \A j \in i..Len(u) : u[i] <= u[j]}}

PageThreadIds == {Uuid(1), Uuid(MaxItems + 2)}

PageStore(threads) ==
    [k \in Keys |->
        IF k = _get_user_key(PageUser)
        THEN dumps([threads |-> threads,
                    requests_available |-> MAX_MESSAGES_PER_USER])
        ELSE Nil]

PageInit ==
    /\ InitWorkers
    /\ rin = NoInput
    /\ rout = NotCalled
    /\ ret = NotCalled
    /\ \/ /\ redis \in {PageStore(threads) : threads \in PageThreadLists}
          /\ call \in [fn : {"get_user_threads_paginated"},
                        user_email : {PageUser}, page : PageNumbers,
                        page_size : PageSizes, sort_by : SortBys,
                        sort_order : SortOrders]
       \/ /\ redis \in {PageStore(<<[NewThread(Uuid(1), Rep("q", 1), 1)
                                        EXCEPT !.messages = messages,
                                               !.updated_at = MaxItems + 2]>>) :
                          messages \in PageMessageLists}
          /\ call \in [fn : {"get_thread_messages_paginated"},
                        thread_id : PageThreadIds, user_email : {PageUser},
                        page : PageNumbers, page_size : PageSizes,
                        sort_order : SortOrders]
    /\ ttl = FreshTtl(redis)

PageNext == ThreadsListingCall \/ MessagesListingCall

PageSpec == PageInit /\ [][PageNext]_vars

\* A walk through the pages of each listing of PageSpec, from page 1.
WalkInit == PageInit /\ call.page = 1

WalkNext == ListingWalk

WalkSpec == WalkInit /\ [][WalkNext]_vars

\* The operations of ChatService alone: the key of one user holds nothing, a
\* payload that is not JSON, JSON that is not an object, a record written
\* before the counter existed, or a full record, and one operation is called.
StoreUser == "alice@x"
StoredThreadId == Uuid(0)
StoredThreadLists ==
    {<<>>,
     <<NewThread(StoredThreadId, Rep("q", 1), 0)>>,
     <<[NewThread(StoredThreadId, Rep("q", 1), 0)
           EXCEPT !.messages = <<NewMessage(Uuid(0), "user", Rep("q", 1), 0)>>]>>}

StoredPayloads ==
    {Nil, NotJson, JsonNotObject}
    \cup {dumps([threads |-> ts]) : ts \in StoredThreadLists}
    \cup {dumps([threads |-> ts, requests_available |-> k]) :
             ts \in StoredThreadLists, k \in 0..MAX_MESSAGES_PER_USER}

ServiceThreadIds == {StoredThreadId, Uuid(1)}

ServiceCalls ==
    [fn : {"get_user_threads", "get_user_requests_available",
           "can_user_send_message", "decrement_user_requests"},
     user_email : {StoreUser}]
    \cup [fn : {"get_thread", "delete_thread"}, user_email : {StoreUser},
          thread_id : ServiceThreadIds]
    \cup [fn : {"create_thread"}, user_email : {StoreUser},
          title : {Rep("q", 1)}]
    \cup [fn : {"add_message_to_thread"}, user_email : {StoreUser},
          thread_id : ServiceThreadIds, content : {Rep("q", 1)},
          role : {"user", "assistant"}]

StoreInit ==
    /\ InitWorkers
    /\ rin = NoInput
    /\ rout = NotCalled
    /\ ret = NotCalled
    /\ redis \in {[k \in Keys |-> IF k = _get_user_key(StoreUser) THEN payload
                                   ELSE Nil] : payload \in StoredPayloads}
    /\ call \in ServiceCalls
    /\ ttl = FreshTtl(redis)

StoreNext == ServiceCall

StoreSpec == StoreInit /\ [][StoreNext]_vars

\* Sequences of direct calls of ChatService and of the listings for one
\* user, starting with no record, while time passes.
ServiceUser == "alice@x"
ServiceNext ==
    \/ ServiceStep(ServiceUser)
    \/ ListingStep(ServiceUser)
    \/ Tick

ServiceSpec == Init /\ [][ServiceNext]_vars

\* The two endpoints that reach query_ragbot, POST /query and GET /ingest/,
\* called one request at a time by one user.
EndpointWorker == "r1"
EndpointQuestions == {<<>>, Rep("q", 1)}
EndpointsNext ==
    \/ /\ Quiet
       /\ \/ QueryStart(EndpointWorker, ConcUsers, ConcQuestions, ConcThreadIds)
          \/ QueryRagStart(EndpointWorker, ConcUsers, EndpointQuestions)
    \/ Validate(EndpointWorker)
    \/ CheckQuota(EndpointWorker)
    \/ ReportLimit(EndpointWorker)
    \/ CreateThreadRead(EndpointWorker)
    \/ CreateThreadWrite(EndpointWorker)
    \/ VerifyThread(EndpointWorker)
    \/ AddUserRead(EndpointWorker)
    \/ AddUserWrite(EndpointWorker)
    \/ CallRouter(EndpointWorker, ConcSearchOutcomes, ConcLlmOutcomes)
    \/ AddAssistantRead(EndpointWorker)
    \/ AddAssistantWrite(EndpointWorker)
    \/ DecrementRead(EndpointWorker)
    \/ DecrementWrite(EndpointWorker)
    \/ QueryRag(EndpointWorker, ConcSearchOutcomes, ConcLlmOutcomes)

EndpointsSpec == Init /\ [][EndpointsNext]_vars

\* Token verifications while time passes and the cache is cleared now and
\* then, starting with no cached key set.
KeysNext == VerifyGoogleToken \/ ClearGoogleKeysCache \/ TimePasses

KeysSpec == Init /\ [][KeysNext]_vars

\* Sequences of ChatService calls made for three authenticated users: one
\* whose token carries an email and two whose tokens carry none.
TokenPayloads ==
    {[sub |-> "sub-1", email |-> Some("alice@x")],
     [sub |-> "sub-2", email |-> None],
     [sub |-> "sub-3", email |-> None]}

AccountNext == \E a \in TokenPayloads : AccountCall(a)

AccountSpec == Init /\ [][AccountNext]_vars

\* One call of query_ragbot on inputs drawn from every combination of query,
\* retrieval outcome, LLM outcome and insert outcome.
RouterQueries == {<<>>, Rep(WS, 2), Rep("q", 1), Concat(Rep(WS, 1), Rep("q", 1))}
RouterInputs ==
    [query : RouterQueries, sr : SearchOutcomes, lr : LlmOutcomes,
     insert_raises : BOOLEAN]

RouterInit ==
    /\ InitChat
    /\ rin \in RouterInputs
    /\ rout = NotCalled
    /\ call = NoCall
    /\ ret = NotCalled

RagbotCall ==
    /\ ~rout.called
    /\ rout' = [called |-> TRUE,
                out |-> query_ragbot(rin.query, rin.sr, rin.lr, rin.insert_raises)]
    /\ UNCHANGED <<redis, clock, uuid_next, started, pc, op, thread_id,
                   user_data, stamp, answer, response, hist, owner, log, rin,
                   call, ret, ttl, idle, authVars>>

RouterNext == RagbotCall

\* One call of query_ragbot under each setting of RAG_CONFIDENCE_THRESHOLD
\* drawn from Thresholds (in tenths): below 0, 0, the default, above it.
Thresholds == {0 - 1, 0, RAG_CONFIDENCE_THRESHOLD, 2 * RAG_CONFIDENCE_THRESHOLD}
ThresholdInputs ==
    [query : RouterQueries,
     sr : SearchOutcomes,
     lr : {[raises |-> FALSE, content |-> Some(Rep("l", 2))]},
     insert_raises : {FALSE},
     threshold : Thresholds]

ThresholdInit ==
    /\ InitChat
    /\ rin \in ThresholdInputs
    /\ rout = NotCalled
    /\ call = NoCall
    /\ ret = NotCalled

ConfiguredRagbotCall ==
    /\ ~rout.called
    /\ rout' = [called |-> TRUE,
                out |-> query_ragbot_at(rin.threshold, rin.query, rin.sr,
                                        rin.lr, rin.insert_raises)]
    /\ UNCHANGED <<redis, clock, uuid_next, started, pc, op, thread_id,
                   user_data, stamp, answer, response, hist, owner, log, rin,
                   call, ret, ttl, idle, authVars>>

ThresholdNext == ConfiguredRagbotCall

ThresholdSpec == ThresholdInit /\ [][ThresholdNext]_vars

RouterSpec == RouterInit /\ [][RouterNext]_vars

(***************************************************************************)
(* Properties.                                                             *)
(***************************************************************************)
\* A string of whitespace only (the empty string included).
IsBlank(s) == \A i \in 1..Len(s) : s[i].c = WS

ValidQuestion(q) == ~IsBlank(q) /\ StrLen(q) <= MaxQuestionLen

\* The worker has answered a POST /query.
QueryDone(p) == pc[p] = "done" /\ op[p].kind = "query"

\* The store as it was when the request of p was received.
Before(p) == Val(hist[p].pre)

AvailableBefore(p) == get_user_requests_available(Before(p), op[p].user_email)
AvailableNow(p) == get_user_requests_available(redis, op[p].user_email)

\* C1: a user whose queries run one at a time and all end with an answer or
\* with the rate-limit error gets an answer for each of the first N queries
\* (N = MAX_MESSAGES_PER_USER), the rate-limit error for the next one, and
\* from then on get_user_requests_available returns 0.
C1_QuotaOfNQueries ==
    \A u \in Users :
        log[u].failed = 0 =>
            LET n == log[u].answered + log[u].limited IN
            /\ n <= MAX_MESSAGES_PER_USER => log[u].limited = 0
            /\ n > MAX_MESSAGES_PER_USER =>
                  /\ log[u].answered = MAX_MESSAGES_PER_USER
                  /\ get_user_requests_available(redis, u) = 0

C1_Witness ==
    \E p \in Procs :
        /\ QueryDone(p)
        /\ response[p].status = 429
        /\ log[op[p].user_email] =
               [answered |-> MAX_MESSAGES_PER_USER, limited |-> 1, failed |-> 0]
        /\ AvailableNow(p) = 0

\* C2: a query handled alone that returns an answer leaves the stored
\* requests_available exactly one lower than it was; a query that ends in an
\* error (400, 429, 404, 500) leaves it as it was.
C2_DecrementOncePerAnswer ==
    \A p \in Procs :
        QueryDone(p) =>
            IF response[p].status = 200
            THEN AvailableNow(p) = AvailableBefore(p) - 1
            ELSE AvailableNow(p) = AvailableBefore(p)

C2_Witness ==
    \E p \in Procs :
        /\ QueryDone(p)
        /\ response[p].status = 200
        /\ AvailableBefore(p) = MAX_MESSAGES_PER_USER
        /\ AvailableNow(p) = MAX_MESSAGES_PER_USER - 1

\* The thread a request names, before the request and now.
ThreadBefore(p) == get_thread(Before(p), Val(op[p].thread_id), op[p].user_email)
ThreadNow(p) == get_thread(redis, Val(op[p].thread_id), op[p].user_email)

\* The query of p named a thread of its user and returned an answer.
AnsweredInThread(p) ==
    /\ QueryDone(p)
    /\ response[p].status = 200
    /\ ~NoThreadId(op[p].thread_id)
    /\ ~IsNone(ThreadBefore(p))

\* C3: a query handled alone that succeeds on an existing thread leaves the
\* thread's messages equal to the previous ones followed by a 'user' message
\* with the question and an 'assistant' message with the answer, and the
\* thread's updated_at equal to the timestamp of the assistant message.
C3_TwoMessagesAppended ==
    \A p \in Procs :
        AnsweredInThread(p) =>
            /\ ~IsNone(ThreadNow(p))
            /\ LET old == Val(ThreadBefore(p)).messages
                   new == Val(ThreadNow(p)).messages
                   n == Len(old)
               IN /\ Len(new) = n + 2
                  /\ SubSeq(new, 1, n) = old
                  /\ new[n + 1].role = "user"
                  /\ new[n + 1].content = op[p].question
                  /\ new[n + 2].role = "assistant"
                  /\ new[n + 2].content = response[p].answer
                  /\ Val(ThreadNow(p)).updated_at = new[n + 2].timestamp

C3_Witness ==
    \E p \in Procs :
        /\ AnsweredInThread(p)
        /\ Len(Val(ThreadBefore(p)).messages) > 0
        /\ Len(Val(ThreadNow(p)).messages) = Len(Val(ThreadBefore(p)).messages) + 2

\* C4: a thread created for one user is never found by get_thread for another
\* user, and GET /chat/threads/{id} of another user answers 404.
C4_ForeignThreadNotFound ==
    /\ \A t \in DOMAIN owner : \A a \in Users \ {owner[t]} :
           IsNone(get_thread(redis, t, a))
    /\ \A p \in Procs :
           ( /\ pc[p] = "done"
             /\ op[p].kind = "get_thread"
             /\ Val(op[p].thread_id) \in DOMAIN owner
             /\ owner[Val(op[p].thread_id)] # op[p].user_email )
           => response[p].status = 404

C4_Witness ==
    \E p \in Procs :
        /\ pc[p] = "done"
        /\ op[p].kind = "get_thread"
        /\ Val(op[p].thread_id) \in DOMAIN owner
        /\ owner[Val(op[p].thread_id)] # op[p].user_email
        /\ ~IsNone(get_thread(redis, Val(op[p].thread_id),
                              owner[Val(op[p].thread_id)]))
        /\ response[p].status = 404

\* What a request that must not touch anything leaves behind: no write, no
\* router or provider call, the store and the quota as they were.
NothingDone(p) ==
    /\ hist[p].writes = 0
    /\ hist[p].router = 0
    /\ hist[p].search = 0
    /\ hist[p].chat = 0
    /\ hist[p].insert = 0
    /\ redis = Before(p)
    /\ AvailableNow(p) = AvailableBefore(p)

\* The query of p carries a thread_id that is not among its user's threads.
CarriesUnknownThread(p) ==
    /\ QueryDone(p)
    /\ ~IsNone(op[p].thread_id)
    /\ IsNone(ThreadBefore(p))

\* C5 as claimed: every query that carries a thread_id not among the user's
\* threads fails with 404, writes nothing, calls neither router nor provider
\* and leaves the quota.
C5_UnknownThreadAlways404 ==
    \A p \in Procs :
        CarriesUnknownThread(p) => response[p].status = 404 /\ NothingDone(p)

\* C5 amended: a query that carries a non-empty thread_id not among the user's
\* threads writes nothing, calls neither router nor provider and leaves the
\* quota; it fails with 404 when its question is valid and the user has quota
\* left (otherwise with the 400 or the 429, which come first).
C5_UnknownThreadRejected ==
    \A p \in Procs :
        (CarriesUnknownThread(p) /\ Val(op[p].thread_id) # EmptyId) =>
            /\ NothingDone(p)
            /\ (ValidQuestion(op[p].question) /\ AvailableBefore(p) > 0)
                   => response[p].status = 404

C5_Witness ==
    \E p \in Procs :
        /\ CarriesUnknownThread(p)
        /\ Val(op[p].thread_id) \in DOMAIN owner
        /\ owner[Val(op[p].thread_id)] # op[p].user_email
        /\ ~IsNone(get_thread(redis, Val(op[p].thread_id),
                              owner[Val(op[p].thread_id)]))
        /\ response[p].status = 404
        /\ NothingDone(p)

\* C6: a query whose quota check finds the quota exhausted fails with 429,
\* and every 429 reports remaining = 0 and the configured maximum, creates no
\* thread, appends no message, does not call the router and writes nothing.
C6_RateLimitReportsZero ==
    \A p \in Procs :
        /\ (QueryDone(p) /\ hist[p].quota_seen = Some(0)) =>
               response[p].status = 429
        /\ (QueryDone(p) /\ response[p].status = 429) =>
            /\ response[p].remaining = 0
            /\ response[p].max = MAX_MESSAGES_PER_USER
            /\ IsNone(thread_id[p])
            /\ hist[p].writes = 0
            /\ hist[p].router = 0

\* C7: a query whose question is empty, blank or longer than 1000 characters
\* ends with 400 before any store access (the quota check included), any write
\* and any router call; a non-blank question of at most 1000 characters is
\* never answered 400, and only such questions get past the validation.
C7_InvalidQuestionRejectedFirst ==
    \A p \in Procs :
        /\ QueryDone(p) =>
              IF ValidQuestion(op[p].question)
              THEN response[p].status # 400
              ELSE /\ response[p].status = 400
                   /\ hist[p].reads = 0
                   /\ IsNone(hist[p].quota_seen)
                   /\ IsNone(thread_id[p])
                   /\ NothingDone(p)
        /\ (op[p].kind = "query" /\ pc[p] \notin {"validate", "done"})
              => ValidQuestion(op[p].question)

C7_Witness ==
    \E p \in Procs :
        /\ QueryDone(p)
        /\ StrLen(op[p].question) = MaxQuestionLen + 1
        /\ response[p].status = 400
        /\ hist[p].reads = 0
        /\ \E u \in Users : log[u].answered > 0

(***************************************************************************)
(* Properties of query_ragbot.                                             *)
(***************************************************************************)
\* t is s without its leading and trailing whitespace.
IsTrimOf(t, s) ==
    \E i \in 1..(Len(s) + 1), j \in 0..Len(s) :
        /\ t = SubSeq(s, i, j)
        /\ \A k \in 1..(i - 1) : s[k].c = WS
        /\ \A k \in (j + 1)..Len(s) : s[k].c = WS
        /\ t # <<>> => (t[1].c # WS /\ t[Len(t)].c # WS)

\* The text of an optional string, None read as no text.
TextOf(o) == IF IsNone(o) THEN <<>> ELSE Val(o)

\* The scored nodes, and whether their mean reaches the threshold.
Scored(nodes) == {i \in DOMAIN nodes : ~IsNone(nodes[i])}

RECURSIVE SumOver(_, _)
SumOver(nodes, I) ==
    IF I = {} THEN 0
    ELSE LET i == CHOOSE k \in I : TRUE
         IN Val(nodes[i]) + SumOver(nodes, I \ {i})

MeanReachesThreshold(nodes) ==
    /\ Scored(nodes) # {}
    /\ SumOver(nodes, Scored(nodes)) >=
           RAG_CONFIDENCE_THRESHOLD * Cardinality(Scored(nodes))

\* The retrieval answered a non-blank query with a confident, usable text.
ConfidentAnswer ==
    /\ ~IsBlank(rin.query)
    /\ ~rin.sr.raises
    /\ MeanReachesThreshold(rin.sr.source_nodes)
    /\ ~IsBlank(TextOf(rin.sr.response))
    /\ TextOf(rin.sr.response) # EmptyResponse

\* The retrieval answered a non-blank query without one.
FallbackCase ==
    /\ ~IsBlank(rin.query)
    /\ ~rin.sr.raises
    /\ ~ConfidentAnswer

Returned == rout.called /\ ~rout.out.raised

SingleUserMessage == <<<<[role |-> "user", content |-> rin.query]>>>>

\* C8: every call of query_ragbot that returns returns a non-empty string; a
\* blank text of the LLM is replaced by the fixed apology.
C8_NonEmptyAnswer ==
    Returned =>
        /\ rout.out.result # <<>>
        /\ ~IsBlank(rout.out.result)
        /\ (FallbackCase /\ IsBlank(TextOf(rin.lr.content)))
               => rout.out.result = LlmApology

C8_Witness ==
    /\ Returned
    /\ FallbackCase
    /\ rin.lr.content = Some(Rep(WS, 1))
    /\ rout.out.result = LlmApology

\* C9: with the mean of the scored nodes at or above the threshold and a
\* synthesized answer that is neither blank nor the sentinel, query_ragbot
\* returns that answer trimmed, does not call the LLM, inserts nothing.
C9_ConfidentAnswerReturned ==
    (rout.called /\ ConfidentAnswer) =>
        /\ ~rout.out.raised
        /\ IsTrimOf(rout.out.result, Val(rin.sr.response))
        /\ rout.out.chat = <<>>
        /\ rout.out.insert = <<>>
        /\ rout.out.stored = <<>>

C9_Witness ==
    /\ rout.called
    /\ ConfidentAnswer
    /\ rin.sr.source_nodes = <<Some(1), Some(5)>>
    /\ Val(rin.sr.response) # rout.out.result
    /\ rout.out.result = Rep("r", 2)

\* C10 as claimed: in every other case of a non-blank query the LLM is called
\* exactly once with the raw question as its single user message and its text
\* is returned trimmed.
C10_FallbackReturnsLlmText ==
    (rout.called /\ FallbackCase) =>
        /\ rout.out.chat = SingleUserMessage
        /\ ~rin.lr.raises =>
              /\ ~rout.out.raised
              /\ IsTrimOf(rout.out.result, TextOf(rin.lr.content))

\* C10 amended: ... and its text is returned trimmed when it is not blank;
\* when it is blank or missing the fixed apology is returned.
C10_FallbackReturnsLlmTextOrApology ==
    (rout.called /\ FallbackCase) =>
        /\ rout.out.chat = SingleUserMessage
        /\ ~rin.lr.raises =>
              /\ ~rout.out.raised
              /\ IF IsBlank(TextOf(rin.lr.content))
                 THEN rout.out.result = LlmApology
                 ELSE IsTrimOf(rout.out.result, Val(rin.lr.content))

C10_Witness ==
    /\ Returned
    /\ FallbackCase
    /\ MeanReachesThreshold(rin.sr.source_nodes)
    /\ rin.sr.response = Some(EmptyResponse)
    /\ rin.query = Concat(Rep(WS, 1), Rep("q", 1))
    /\ rin.lr.content = Some(Concat(Rep(WS, 1), Rep("l", 2)))
    /\ rout.out.result = Rep("l", 2)

\* The document the fallback inserts: the question and the text of the LLM as
\* it came, tagged "LLM Response".
FallbackDoc ==
    [query |-> rin.query, answer |-> TextOf(rin.lr.content),
     source |-> "LLM Response"]

\* C11 as claimed: every call of query_ragbot that takes the fallback path and
\* returns has attempted exactly one insert, of the question and the answer.
C11_FallbackInsertsOnce ==
    (Returned /\ FallbackCase) => rout.out.insert = <<FallbackDoc>>

\* C11 amended: a call that takes the fallback path and returns has attempted
\* exactly one insert, of the question and the answer, when the text of the
\* LLM is not blank, and no insert when it is blank or missing (the apology is
\* returned and not stored); no other path inserts.
C11_FallbackInsertsOnceUnlessBlank ==
    Returned =>
        IF FallbackCase /\ ~IsBlank(TextOf(rin.lr.content))
        THEN rout.out.insert = <<FallbackDoc>>
        ELSE rout.out.insert = <<>>

C11_Witness ==
    /\ Returned
    /\ FallbackCase
    /\ rin.sr.source_nodes = <<Some(1)>>
    /\ rin.lr.content = Some(Rep("l", 2))
    /\ rout.out.insert = <<FallbackDoc>>
    /\ rout.out.stored = <<FallbackDoc>>

(***************************************************************************)
(* Properties of the failure handling of query_endpoint.                   *)
(***************************************************************************)
\* The router of the request of p tried the insert and the insert raised.
InsertFailed(p) == hist[p].insert = 1 /\ hist[p].stored = 0

\* The last message of the thread the response of p names.
LastMessage(p) ==
    LET thread == get_thread(redis, response[p].thread_id, op[p].user_email)
    IN IF IsNone(thread) \/ Val(thread).messages = <<>>
       THEN None
       ELSE Some(Val(thread).messages[Len(Val(thread).messages)])

\* C12: when the insert of the fallback pair fails, the query still ends with
\* 200 and the trimmed text of the LLM as its answer, the assistant message
\* with that answer is the last of the thread, and the quota is one lower.
C12_InsertFailureSwallowed ==
    \A p \in Procs :
        (QueryDone(p) /\ InsertFailed(p)) =>
            /\ response[p].status = 200
            /\ IsTrimOf(response[p].answer, Val(Val(hist[p].llm)))
            /\ ~IsNone(LastMessage(p))
            /\ Val(LastMessage(p)).role = "assistant"
            /\ Val(LastMessage(p)).content = response[p].answer
            /\ AvailableNow(p) = AvailableBefore(p) - 1

C12_Witness ==
    \E p \in Procs :
        /\ QueryDone(p)
        /\ InsertFailed(p)
        /\ response[p].status = 200
        /\ response[p].answer = Rep("l", 2)
        /\ Val(hist[p].llm) = Some(Concat(Rep(WS, 1), Rep("l", 2)))
        /\ AvailableNow(p) = MAX_MESSAGES_PER_USER - 1

\* C13: DELETE /chat/threads/{id} by the owner answers 200 when the thread
\* exists, and the thread is then absent from the record of the user; it
\* answers 404 when the thread does not exist (so the second of two deletes
\* of the same id is a 404).
C13_DeleteThenNotFound ==
    \A p \in Procs :
        (pc[p] = "done" /\ op[p].kind = "delete_endpoint") =>
            IF ~IsNone(ThreadBefore(p))
            THEN response[p].status = 200 /\ IsNone(ThreadNow(p))
            ELSE response[p].status = 404

\* The append of the assistant message of the request of p failed: the thread
\* was not found (ValueError) or the store call raised.
AssistantAppendFailed(p) ==
    \/ hist[p].value_error = Some("assistant")
    \/ hist[p].fault \in {Some("assistant_read"), Some("assistant_write")}

\* C16: a query whose assistant append fails, for whichever reason, after the
\* router produced an answer still ends with 200, that answer and the id of
\* its thread.
C16_AssistantAppendFailureSwallowed ==
    \A p \in Procs :
        (QueryDone(p) /\ hist[p].router = 1 /\ ~hist[p].raised
                      /\ AssistantAppendFailed(p)) =>
            /\ response[p].status = 200
            /\ response[p].answer = answer[p]
            /\ response[p].thread_id = Val(thread_id[p])

\* The append of the user message of the request of p failed: the thread was
\* not found (ValueError) or the store call raised.
UserAppendFailed(p) ==
    \/ hist[p].value_error = Some("user")
    \/ hist[p].fault \in {Some("user_read"), Some("user_write")}

\* C17: a query whose user append fails ends with 500; the router and the
\* providers are not called, and the request writes nothing after the failure
\* (its only write, if any, is the create_thread before it): no assistant
\* message, no decrement.
C17_UserAppendFailureAborts ==
    \A p \in Procs :
        (QueryDone(p) /\ UserAppendFailed(p)) =>
            /\ response[p].status = 500
            /\ hist[p].router = 0
            /\ hist[p].search = 0
            /\ hist[p].chat = 0
            /\ hist[p].writes = IF NoThreadId(op[p].thread_id) THEN 1 ELSE 0
            /\ hist[p].value_error # Some("assistant")
            /\ AvailableNow(p) >= AvailableBefore(p)

C17_Witness ==
    \E p \in Procs :
        /\ QueryDone(p)
        /\ ~NoThreadId(op[p].thread_id)
        /\ ~IsNone(ThreadBefore(p))
        /\ IsNone(ThreadNow(p))
        /\ hist[p].value_error = Some("user")
        /\ response[p] = HttpError(500, "Failed to save user message")
        /\ hist[p].router = 0
        /\ hist[p].writes = 0

(***************************************************************************)
(* Properties of the thread a query creates.                               *)
(***************************************************************************)
\* The i-th character of a string.
RECURSIVE CharAt(_, _)
CharAt(s, i) ==
    IF i <= Head(s).n THEN Head(s).c ELSE CharAt(Tail(s), i - Head(s).n)

\* title is the title the claim gives a thread created for the question q.
TitleOf(title, q) ==
    IF StrLen(q) <= 50
    THEN title = q
    ELSE /\ StrLen(title) = 53
         /\ \A i \in 1..50 : CharAt(title, i) = CharAt(q, i)
         /\ \A i \in 51..53 : CharAt(title, i) = "."

\* The request of p left exactly one new thread, the last of the threads of
\* its user, with a new id and the title of the question, and a response
\* with an answer carries the id of that thread.
CreatedOneThread(p) ==
    LET old == get_user_threads(Before(p), op[p].user_email)
        new == get_user_threads(redis, op[p].user_email)
    IN /\ Len(new) = Len(old) + 1
       /\ \A i \in 1..Len(old) : new[i] = old[i]
       /\ \A i \in 1..Len(old) : old[i].id # new[Len(new)].id
       /\ TitleOf(new[Len(new)].title, op[p].question)
       /\ new[Len(new)].title # answer[p]
       /\ response[p].status = 200 =>
              response[p].thread_id = new[Len(new)].id

\* C15 as claimed: every query without thread_id creates exactly one new
\* thread, titled with the question (cut to 50 characters and "..." when it
\* is longer), and returns the id of that thread.
C15_NewThreadTitled ==
    \A p \in Procs :
        (QueryDone(p) /\ IsNone(op[p].thread_id)) => CreatedOneThread(p)

\* C15 amended: ... every query without thread_id (or with the empty one)
\* whose question is valid and whose user has quota left ...; a query that is
\* rejected with 400 or 429 creates no thread.
C15_NewThreadTitledWhenAdmitted ==
    \A p \in Procs :
        (QueryDone(p) /\ NoThreadId(op[p].thread_id)) =>
            IF ValidQuestion(op[p].question) /\ AvailableBefore(p) > 0
            THEN CreatedOneThread(p)
            ELSE get_user_threads(redis, op[p].user_email) =
                     get_user_threads(Before(p), op[p].user_email)

C15_Witness ==
    \E p \in Procs :
        /\ QueryDone(p)
        /\ IsNone(op[p].thread_id)
        /\ op[p].question = Concat(Rep("q", TitleLen), Rep("x", 1))
        /\ response[p].status = 200
        /\ ~IsNone(get_thread(redis, response[p].thread_id, op[p].user_email))
        /\ Val(get_thread(redis, response[p].thread_id,
                          op[p].user_email)).title
               = Concat(Rep("q", TitleLen), Rep(".", 3))

\* The messages of the thread the request of p works on, before the request
\* (none when the request created the thread) and now.
MessagesBefore(p) ==
    LET thread == get_thread(Before(p), Val(thread_id[p]), op[p].user_email)
    IN IF IsNone(thread) THEN <<>> ELSE Val(thread).messages

MessagesNow(p) ==
    LET thread == get_thread(redis, Val(thread_id[p]), op[p].user_email)
    IN IF IsNone(thread) THEN <<>> ELSE Val(thread).messages

\* C18: a query whose similarity search or LLM call raises ends with 500;
\* each provider was called at most once, the quota is as it was, and the
\* thread of the request (a new one included) is in the store with the user
\* message as its one new and last message, no assistant message after it.
C18_ProviderFailureNotRolledBack ==
    \A p \in Procs :
        (QueryDone(p) /\ hist[p].raised) =>
            /\ response[p].status = 500
            /\ hist[p].router = 1
            /\ hist[p].search <= 1
            /\ hist[p].chat <= 1
            /\ AvailableNow(p) = AvailableBefore(p)
            /\ ~IsNone(get_thread(redis, Val(thread_id[p]), op[p].user_email))
            /\ LET old == MessagesBefore(p)
                   new == MessagesNow(p)
               IN /\ Len(new) = Len(old) + 1
                  /\ SubSeq(new, 1, Len(old)) = old
                  /\ new[Len(new)].role = "user"
                  /\ new[Len(new)].content = op[p].question

C18_Witness ==
    \E p \in Procs :
        /\ QueryDone(p)
        /\ hist[p].raised
        /\ hist[p].search = 1
        /\ hist[p].chat = 1
        /\ NoThreadId(op[p].thread_id)
        /\ IsNone(get_thread(Before(p), Val(thread_id[p]), op[p].user_email))
        /\ Len(MessagesNow(p)) = 1
        /\ response[p].status = 500

(***************************************************************************)
(* Properties of the paginated listings.                                   *)
(***************************************************************************)
\* The collection a listing call is about (the threads of the user, or the
\* messages of the thread), the sort key of its i-th element, and the
\* position (from 0) of that element in the sorted collection: the number
\* of elements listed before it, elements of equal key in stored order.
ListedThreads == loads(redis[_get_user_key(call.user_email)]).threads

ListedCollection ==
    IF call.fn = "get_user_threads_paginated"
    THEN [i \in 1..Len(ListedThreads) |-> ChatThreadSummary(ListedThreads[i])]
    ELSE LET own == {i \in 1..Len(ListedThreads) :
                        ListedThreads[i].id = call.thread_id}
         IN IF own = {} THEN <<>>
            ELSE ListedThreads[CHOOSE i \in own : TRUE].messages

ListedExists ==
    \/ call.fn = "get_user_threads_paginated"
    \/ /\ call.fn = "get_thread_messages_paginated"
       /\ \E i \in 1..Len(ListedThreads) : ListedThreads[i].id = call.thread_id

ListedKey(i) ==
    IF call.fn = "get_user_threads_paginated"
    THEN ThreadSortKey(ListedCollection[i], call.sort_by)
    ELSE <<ListedCollection[i].timestamp>>

ListedDescending == call.sort_order \in {"desc", "DESC"}

ListedBefore(i, j) ==
    \/ ListedKey(i) = ListedKey(j) /\ i < j
    \/ ~ListedDescending /\ LexLess(ListedKey(i), ListedKey(j))
    \/ ListedDescending /\ LexLess(ListedKey(j), ListedKey(i))

ListedPosition(i) ==
    Cardinality({j \in 1..Len(ListedCollection) : ListedBefore(j, i)})

ListedAt(k) ==
    ListedCollection[CHOOSE i \in 1..Len(ListedCollection) :
                        ListedPosition(i) = k]

ExpectedPage ==
    LET lo == (call.page - 1) * call.page_size
        hi == call.page * call.page_size
        positions == {k \in 0..(Len(ListedCollection) - 1) : lo <= k /\ k < hi}
    IN [m \in 1..Cardinality(positions) |-> ListedAt(lo + m - 1)]

\* C14: for every collection size n >= 0, page size s >= 1 and page p >= 1,
\* both paginated listings (threads and messages) return exactly the
\* elements at positions [(p-1)*s, p*s) of the sorted collection, with
\* total_count = n, total_pages = ceil(n/s), has_next = (p < total_pages)
\* and has_previous = (p > 1); a page beyond the last yields an empty list
\* and no error.
C14_PageOfSortedCollection ==
    (ret.called /\ ListedExists) =>
        /\ ~ret.out.raised
        /\ LET l == ret.out.listing
               n == Len(ListedCollection)
           IN /\ l.items = ExpectedPage
              /\ l.total_count = n
              /\ l.total_pages >= 0
              /\ l.total_pages * call.page_size >= n
              /\ (l.total_pages - 1) * call.page_size < n
              /\ l.has_next = (call.page < l.total_pages)
              /\ l.has_previous = (call.page > 1)
              /\ call.page > l.total_pages => l.items = <<>>

\* The last, partial page of three threads listed by title, descending.
C14_Witness ==
    /\ ret.called
    /\ ~ret.out.raised
    /\ call.fn = "get_user_threads_paginated"
    /\ call.sort_by = "title"
    /\ call.sort_order = "DESC"
    /\ call.page = 2
    /\ call.page_size = 2
    /\ ret.out.listing.total_count = 3
    /\ Len(ret.out.listing.items) = 1
    /\ ret.out.listing.items[1].id = Uuid(1)
    /\ ~ret.out.listing.has_next
    /\ ret.out.listing.has_previous

(***************************************************************************)
(* Properties of the read of the stored record.                            *)
(***************************************************************************)
\* The store in which no key holds anything.
EmptyStore == [k \in Keys |-> Nil]

\* The outcome without the store.
Visible(o) == IF o.raised THEN <<"raised", o.error>> ELSE <<"returned", o.value>>

\* C19: reading the state of a user whose record is absent or whose stored
\* payload is corrupt or unparseable never raises to the caller: it yields
\* the default state (no thread, requests_available at the maximum), so
\* every operation built on the read (list, get, create, add, delete, quota
\* check, decrement) completes without a storage-parse error, as it does on
\* an absent record.
C19_CorruptRecordReadsAsDefault ==
    (/\ ret.called
     /\ call.fn \in ServiceFns
     /\ ret.read \in {Nil, NotJson, JsonNotObject}) =>
        /\ ret.out.error # "TypeError"
        /\ Visible(ret.out)
             = Visible(ServiceOutcome(EmptyStore, call, Uuid(uuid_next - 1),
                                      clock - 1))
        /\ call.fn = "get_user_threads" => Visible(ret.out) = <<"returned", <<>>>>
        /\ call.fn = "get_user_requests_available" =>
              Visible(ret.out) = <<"returned", MAX_MESSAGES_PER_USER>>

(***************************************************************************)
(* Properties of the counter of requests.                                  *)
(***************************************************************************)
\* C20: in every reachable state, under every interleaving of concurrent
\* requests of one user, the stored requests_available is at least 0 and at
\* most the configured maximum, and the usage-limits report has
\* requests_used = max_requests - requests_available with requests_used at
\* least 0 and at most max_requests.
C20_CounterWithinBounds ==
    \A u \in Users :
        LET stored == get_user_requests_available(redis, u)
            report == get_user_limits(redis, u)
        IN /\ 0 <= stored
           /\ stored <= MAX_MESSAGES_PER_USER
           /\ report.requests_available = stored
           /\ report.max_requests = MAX_MESSAGES_PER_USER
           /\ report.requests_used = report.max_requests - stored
           /\ 0 <= report.requests_used
           /\ report.requests_used <= report.max_requests

\* More requests of one user than the maximum, handled at the same time, were
\* all answered: the counter stopped at 0 and the report shows the maximum
\* used.
C20_Witness ==
    /\ started = Cardinality(Procs)
    /\ Cardinality(Procs) > MAX_MESSAGES_PER_USER
    /\ \A p \in Procs :
          /\ pc[p] = "done"
          /\ response[p].status = 200
    /\ \E u \in Users :
          get_user_limits(redis, u)
            = [requests_available |-> 0,
               max_requests |-> MAX_MESSAGES_PER_USER,
               requests_used |-> MAX_MESSAGES_PER_USER]

(***************************************************************************)
(* Properties of concurrent requests of one user.                          *)
(***************************************************************************)
\* The steps at which a worker executes _save_user_data.
WriteSteps ==
    {"create_write", "user_write", "assistant_write", "decrement_write",
     "delete_write"}

\* The number of messages in all threads of the stored record of a user.
StoredMessageCount(r, u) ==
    LET threads == get_user_threads(r, u)
    IN Sum([i \in 1..Len(threads) |-> Len(threads[i].messages)])

\* C21: every request does read-whole-record / modify / write-whole-record
\* without locking: each write stores the snapshot its worker computed from
\* its own read, whatever the store holds by then.  So a lost update is
\* reachable (C21_Witness): two concurrent requests of one user both
\* complete successfully and the stored record lacks a message one of them
\* appended.
C21_WritesOwnSnapshot ==
    [][\A p \in Procs :
          (pc[p] \in WriteSteps /\ pc'[p] # pc[p]) =>
              redis'[_get_user_key(op[p].user_email)] = dumps(user_data[p])]_vars

\* Two requests of one user, the only ones so far, overlapped (the maximum
\* admits one at a time), both returned an answer, no append of either
\* failed, and the stored record holds fewer than the two messages each of
\* them appended.
C21_Witness ==
    /\ started = Cardinality(Procs)
    /\ Cardinality(Procs) > MAX_MESSAGES_PER_USER
    /\ \A p \in Procs :
          /\ QueryDone(p)
          /\ response[p].status = 200
          /\ hist[p].value_error = None
    /\ \E u \in Users :
          /\ \A p \in Procs : op[p].user_email = u
          /\ StoredMessageCount(redis, u) < 2 * Cardinality(Procs)

\* C22: without expiry, corruption or reset of the record, and with
\* concurrent requests of one user, the stored requests_available never
\* increases from one state of the store to the next.
C22_CounterNeverIncreases ==
    [][\A u \in Users :
          get_user_requests_available(redis', u)
              <= get_user_requests_available(redis, u)]_vars

\* C23: between two resets of the record of a user, the number of the
\* submit-query requests of that user that return an answer never exceeds
\* the configured maximum, under every interleaving of its requests.
C23_AnswersWithinMaximum ==
    \A u \in Users : log[u].answered <= MAX_MESSAGES_PER_USER

\* The thread with the id in the stored record of a user, if any.
StoredThread(r, u, tid) == get_thread(r, tid, u)

\* xs is a prefix of ys.
IsPrefixOf(xs, ys) == Len(xs) <= Len(ys) /\ SubSeq(ys, 1, Len(xs)) = xs

\* C24: messages are append-only: for every thread that exists in two
\* successive stored states of the record of a user, the earlier message
\* list is a prefix of the later one, for every sequence and interleaving
\* of operations.
C24_MessagesAppendOnly ==
    [][\A u \in Users : \A tid \in DOMAIN owner :
          (~IsNone(StoredThread(redis, u, tid))
           /\ ~IsNone(StoredThread(redis', u, tid))) =>
              IsPrefixOf(Val(StoredThread(redis, u, tid)).messages,
                         Val(StoredThread(redis', u, tid)).messages)]_vars

\* C25: once delete_thread(tid, user) has returned true, the thread tid is
\* never again in the stored state of that user, whatever other requests of
\* the user were in flight at the time of the delete.
C25_DeletedStaysDeleted ==
    \A p \in Procs :
        (pc[p] = "done" /\ op[p].kind = "delete_thread"
         /\ response[p].returned) =>
            IsNone(StoredThread(redis, op[p].user_email, Val(op[p].thread_id)))

(***************************************************************************)
(* Properties of the stored threads.                                       *)
(***************************************************************************)
\* C26: the id, the title and the created_at of a thread have the same
\* values in every stored state in which the thread exists, from its
\* creation until its deletion: no operation (an append, a decrement, the
\* creation or deletion of another thread) changes them.
C26_ThreadIdentityImmutable ==
    [][\A u \in Users : \A tid \in DOMAIN owner :
          (~IsNone(StoredThread(redis, u, tid))
           /\ ~IsNone(StoredThread(redis', u, tid))) =>
              LET old == Val(StoredThread(redis, u, tid))
                  new == Val(StoredThread(redis', u, tid))
              IN /\ new.id = old.id
                 /\ new.title = old.title
                 /\ new.created_at = old.created_at]_vars

\* A thread that got both messages of an answered query is stored next to a
\* thread created after it.
C26_Witness ==
    \E u \in Users :
        LET threads == get_user_threads(redis, u) IN
        /\ Len(threads) >= 2
        /\ Len(threads[1].messages) >= 2
        /\ threads[1].updated_at > threads[1].created_at
        /\ threads[2].created_at > threads[1].updated_at

\* C27: in every stored state of the record of a user, also those that
\* racing writers produce, the updated_at of each thread is the timestamp
\* of the last message of the thread, or its created_at when the thread has
\* no message.
C27_UpdatedAtIsLastTimestamp ==
    \A u \in Users :
        LET threads == get_user_threads(redis, u) IN
        \A i \in 1..Len(threads) :
            threads[i].updated_at =
                IF threads[i].messages = <<>> THEN threads[i].created_at
                ELSE threads[i].messages[Len(threads[i].messages)].timestamp

\* Two requests of one user are in flight, and the record holds a thread
\* with a message next to a thread without one.
C27_Witness ==
    /\ \A p \in Procs : pc[p] \notin {"idle", "done"}
    /\ \E u \in Users :
          LET threads == get_user_threads(redis, u) IN
          \E i, j \in 1..Len(threads) :
              /\ threads[i].messages # <<>>
              /\ threads[i].updated_at > threads[i].created_at
              /\ threads[j].messages = <<>>

(***************************************************************************)
(* Properties of the direct calls of the service: the time-to-live, the    *)
(* reads, and add_message_to_thread.                                       *)
(***************************************************************************)
\* C28: every successful write of the record of a user (create_thread,
\* add_message_to_thread, a delete_thread that removes a thread, a decrement
\* from a value above 0) gives the record the whole configured window
\* again, so the record is stored exactly while fewer ticks than the window
\* have passed since its last write; once it has expired, a read yields the
\* default state with no thread and the full quota.
C28_ExpiresAfterIdleWindow ==
    /\ \A k \in Keys :
          (redis[k] # Nil) <=> (~IsNone(idle[k]) /\ Val(idle[k]) < ChatTtl)
    /\ \A u \in Users :
          redis[_get_user_key(u)] = Nil =>
              /\ get_user_threads(redis, u) = <<>>
              /\ get_user_requests_available(redis, u) = MAX_MESSAGES_PER_USER
    /\ (ret.called /\ call.fn \in ServiceFns /\ ret.out.saved) =>
          ttl[_get_user_key(call.user_email)]
              = ChatTtl - Val(idle[_get_user_key(call.user_email)])

\* A record that was written has expired the whole window after its last
\* write, and the read that follows gives the full quota.
C28_Witness ==
    /\ started = MaxCalls
    /\ ret.called
    /\ call.fn = "get_user_requests_available"
    /\ ret.read = Nil
    /\ ret.out.value = MAX_MESSAGES_PER_USER
    /\ idle[_get_user_key(call.user_email)] = Some(ChatTtl)
    /\ ttl[_get_user_key(call.user_email)] = 0

\* The operations that only read.
ReadFns ==
    {"get_thread", "get_user_threads", "get_user_requests_available",
     "can_user_send_message", "get_user_threads_paginated",
     "get_thread_messages_paginated"}

\* C29: get_thread, get_user_threads, get_user_requests_available,
\* can_user_send_message and the two paginated listings leave the stored
\* record as it is: no write, no record created for a user who has none, no
\* change of the stored order, no renewal of the time-to-live.
C29_ReadsLeaveStore ==
    [][(started' # started /\ call'.fn \in ReadFns) =>
          (redis' = redis /\ ttl' = ttl)]_vars

\* A listing returned two threads in the order opposite to the stored one,
\* one tick after the last write of the record.
C29_Witness ==
    /\ ret.called
    /\ call.fn = "get_user_threads_paginated"
    /\ Len(ret.out.listing.items) = 2
    /\ ret.out.listing.items[1].id = get_user_threads(redis, call.user_email)[2].id
    /\ ttl[_get_user_key(call.user_email)] = ChatTtl - 1

\* C30: add_message_to_thread(tid, user, ...) for a tid that is not among
\* the threads of the user fails with the thread-not-found condition and
\* writes nothing (the record and its time-to-live stay); for an existing
\* tid it appends exactly one message to that thread only, sets the
\* updated_at of that thread, and leaves every other thread and
\* requests_available as they were in the record it read.
C30_AppendToOneThread ==
    [][(started' # started /\ call'.fn = "add_message_to_thread") =>
          LET u == call'.user_email
              tid == call'.thread_id
              before == _get_user_data(redis, u)
              after == _get_user_data(redis', u)
              o == ret'.out
          IN IF \A i \in 1..Len(before.threads) : before.threads[i].id # tid
             THEN /\ o.raised
                  /\ o.error = "ValueError"
                  /\ redis' = redis
                  /\ ttl' = ttl
             ELSE /\ ~o.raised
                  /\ after.requests_available = before.requests_available
                  /\ Len(after.threads) = Len(before.threads)
                  /\ \A i \in 1..Len(before.threads) :
                        LET old == before.threads[i]
                            new == after.threads[i]
                        IN IF old.id # tid THEN new = old
                           ELSE /\ new.id = old.id
                                /\ new.title = old.title
                                /\ new.created_at = old.created_at
                                /\ Len(new.messages) = Len(old.messages) + 1
                                /\ IsPrefixOf(old.messages, new.messages)
                                /\ LET m == new.messages[Len(new.messages)]
                                   IN /\ m.id = o.value
                                      /\ m.role = call'.role
                                      /\ m.content = call'.content
                                      /\ new.updated_at = m.timestamp]_vars

\* A message was appended to the second of two stored threads.
C30_Witness ==
    /\ ret.called
    /\ call.fn = "add_message_to_thread"
    /\ ~ret.out.raised
    /\ LET threads == get_user_threads(redis, call.user_email) IN
       /\ Len(threads) = 2
       /\ threads[1].messages = <<>>
       /\ threads[2].id = call.thread_id
       /\ Len(threads[2].messages) = 1
       /\ threads[2].messages[1].id = ret.out.value

\* C31: delete_thread(tid, user) returns false and writes nothing when tid
\* is not among the threads of the user; when it is, it returns true and the
\* stored record afterwards holds exactly the other threads, as they were and
\* in the same order, with requests_available as it was.
C31_DeleteRemovesOnlyTheThread ==
    [][(started' # started /\ call'.fn = "delete_thread") =>
          LET u == call'.user_email
              tid == call'.thread_id
              before == _get_user_data(redis, u)
              after == _get_user_data(redis', u)
              o == ret'.out
          IN IF \A i \in 1..Len(before.threads) : before.threads[i].id # tid
             THEN /\ ~o.raised
                  /\ o.value = FALSE
                  /\ redis' = redis
                  /\ ttl' = ttl
             ELSE /\ ~o.raised
                  /\ o.value = TRUE
                  /\ after.threads
                        = SelectSeq(before.threads, LAMBDA t : t.id # tid)
                  /\ after.requests_available = before.requests_available
                  /\ redis'[_get_user_key(u)] = dumps(after)]_vars

\* The first of two stored threads was deleted after the quota was used up:
\* the second thread is what the record holds, and the counter is still 0.
C31_Witness ==
    /\ ret.called
    /\ call.fn = "delete_thread"
    /\ ~ret.out.raised
    /\ ret.out.value = TRUE
    /\ Len(loads(ret.read).threads) = 2
    /\ loads(ret.read).threads[1].id = call.thread_id
    /\ loads(ret.read).requests_available = 0
    /\ get_user_threads(redis, call.user_email)
          = <<loads(ret.read).threads[2]>>
    /\ get_user_requests_available(redis, call.user_email) = 0

\* C32: decrement_user_requests returns the value after the decrement: when
\* the value read is v > 0 it stores v - 1, returns v - 1 and changes nothing
\* else in the record; when the value read is 0 it returns 0 and writes
\* nothing.
C32_DecrementReturnsRemaining ==
    [][(started' # started /\ call'.fn = "decrement_user_requests") =>
          LET u == call'.user_email
              before == _get_user_data(redis, u)
              v == before.requests_available
              o == ret'.out
          IN /\ ~o.raised
             /\ IF v > 0
                THEN /\ o.value = v - 1
                     /\ redis'[_get_user_key(u)]
                           = dumps([threads |-> before.threads,
                                    requests_available |-> v - 1])
                ELSE /\ v = 0
                     /\ o.value = 0
                     /\ redis' = redis
                     /\ ttl' = ttl]_vars

\* The counter of a record that holds a thread was lowered from the maximum:
\* the call returned the stored value and the thread is as it was.
C32_Witness ==
    /\ ret.called
    /\ call.fn = "decrement_user_requests"
    /\ ~ret.out.raised
    /\ ret.read # Nil
    /\ Len(loads(ret.read).threads) = 1
    /\ loads(ret.read).requests_available = MAX_MESSAGES_PER_USER
    /\ ret.out.value = MAX_MESSAGES_PER_USER - 1
    /\ get_user_requests_available(redis, call.user_email) = ret.out.value
    /\ get_user_threads(redis, call.user_email) = loads(ret.read).threads

\* The counter was at 0: the call returned 0 and the record stayed.
C32_WitnessAtZero ==
    /\ ret.called
    /\ call.fn = "decrement_user_requests"
    /\ ret.read # Nil
    /\ loads(ret.read).requests_available = 0
    /\ ret.out.value = 0
    /\ ~ret.out.saved

\* The mean of the scores of the nodes that carry one, compared with a
\* threshold; 0 when no node carries a score.
MeanReaches(nodes, threshold) ==
    IF Scored(nodes) = {} THEN 0 >= threshold
    ELSE SumOver(nodes, Scored(nodes)) >= threshold * Cardinality(Scored(nodes))

\* The call took the fallback path: the LLM was asked.
TookFallback == rout.out.raised \/ rout.out.chat = SingleUserMessage

\* C33 as claimed: the confidence is the mean over the nodes that carry a
\* score and 0 when none does, and whenever no returned node carries a score
\* query_ragbot takes the fallback path, under every setting of the
\* threshold.
C33_UnscoredForcesFallback ==
    (rout.called /\ ~IsBlank(rin.query) /\ ~rin.sr.raises) =>
        /\ (~MeanReaches(rin.sr.source_nodes, rin.threshold)) => TookFallback
        /\ Scored(rin.sr.source_nodes) = {} => TookFallback

\* The part that holds under every setting: the route follows the mean over
\* the scored nodes, read as 0 when there is none.
C33_RouteFollowsMean ==
    (rout.called /\ ~IsBlank(rin.query) /\ ~rin.sr.raises) =>
        (TookFallback <=>
            ~(MeanReaches(rin.sr.source_nodes, rin.threshold)
              /\ ~IsBlank(TextOf(rin.sr.response))
              /\ TextOf(rin.sr.response) # EmptyResponse))

\* The part that holds under a setting above 0.
C33_UnscoredForcesFallbackAboveZero ==
    (rout.called /\ ~IsBlank(rin.query) /\ ~rin.sr.raises
       /\ rin.threshold > 0 /\ Scored(rin.sr.source_nodes) = {})
        => TookFallback

\* C34: query_ragbot called with an empty or whitespace-only query returns
\* the fixed rejection message, calls neither the similarity search nor the
\* LLM, and inserts nothing into the index.
C34_BlankQueryRejected ==
    (rout.called /\ IsBlank(rin.query)) =>
        /\ ~rout.out.raised
        /\ rout.out.result = RejectionMsg
        /\ rout.out.search = 0
        /\ rout.out.chat = <<>>
        /\ rout.out.insert = <<>>
        /\ rout.out.stored = <<>>

\* A query of two blanks was turned away although the search would have
\* given a confident answer and the LLM a text.
C34_Witness ==
    /\ rout.called
    /\ rin.query = Rep(WS, 2)
    /\ rin.sr = [raises |-> FALSE, response |-> Some(Rep("r", 2)),
                 source_nodes |-> <<Some(5)>>]
    /\ rin.lr = [raises |-> FALSE, content |-> Some(Rep("l", 2))]
    /\ rout.out.result = RejectionMsg
    /\ rout.out.search = 0

\* The record read by the call was written before the counter existed: it
\* parses to an object that has threads and no requests_available.
LegacyRead ==
    /\ ret.called
    /\ call.fn \in ServiceFns
    /\ ret.read.kind = "json"
    /\ "requests_available" \notin DOMAIN loads(ret.read)

\* C35: a stored record that parses but has no requests_available field is
\* read as having requests_available at the configured maximum, with its
\* threads as stored; the first write of that record persists the field, and
\* a decrement on such a record stores the maximum less one.
C35_LegacyRecordHasFullQuota ==
    LegacyRead =>
        LET key == _get_user_key(call.user_email)
            old == loads(ret.read)
            o == ret.out
        IN /\ ~o.raised \/ (call.fn = "add_message_to_thread"
                               /\ o.error = "ValueError")
           /\ call.fn = "get_user_requests_available"
                 => o.value = MAX_MESSAGES_PER_USER
           /\ call.fn = "can_user_send_message"
                 => o.value = (MAX_MESSAGES_PER_USER > 0)
           /\ call.fn = "get_user_threads" => o.value = old.threads
           /\ IF o.saved
              THEN /\ redis[key].kind = "json"
                   /\ "requests_available" \in DOMAIN loads(redis[key])
                   /\ loads(redis[key]).requests_available
                         = IF call.fn = "decrement_user_requests"
                           THEN MAX_MESSAGES_PER_USER - 1
                           ELSE MAX_MESSAGES_PER_USER
                   /\ call.fn \in {"decrement_user_requests"}
                         => loads(redis[key]).threads = old.threads
                   /\ call.fn = "create_thread"
                         => SubSeq(loads(redis[key]).threads, 1,
                                   Len(old.threads)) = old.threads
              ELSE redis[key] = ret.read
           /\ call.fn = "decrement_user_requests"
                 => (o.saved /\ o.value = MAX_MESSAGES_PER_USER - 1)

\* A decrement on a record that holds one thread with one message and no
\* counter stored the thread as it was and the maximum less one.
C35_Witness ==
    /\ LegacyRead
    /\ call.fn = "decrement_user_requests"
    /\ Len(loads(ret.read).threads) = 1
    /\ Len(loads(ret.read).threads[1].messages) = 1
    /\ redis[_get_user_key(call.user_email)]
          = dumps([threads |-> loads(ret.read).threads,
                   requests_available |-> MAX_MESSAGES_PER_USER - 1])
    /\ ret.out.value = MAX_MESSAGES_PER_USER - 1

\* What the user of the token payload a sees of the store r: threads,
\* messages and requests_available.
SeenBy(r, a) == _get_user_data(r, endpoint_user_email(get_current_user(a)))

\* C36 as claimed: two authenticated users with different stable user
\* identifiers never share chat state: no operation performed by one of them
\* changes the threads, messages or requests_available seen by the other,
\* also when the token of either carries no email.
C36_UsersIsolated ==
    [][started' # started =>
          \A b \in TokenPayloads :
             b.sub # call'.current_user.user_id
                 => SeenBy(redis', b) = SeenBy(redis, b)]_vars

\* The part that holds: a user is isolated from every user whose email
\* differs from theirs.
C36_IsolatedByEmail ==
    [][started' # started =>
          \A b \in TokenPayloads :
             b.email # call'.current_user.email
                 => SeenBy(redis', b) = SeenBy(redis, b)]_vars

\* The worker is done with a request to an endpoint that reaches the router.
AskedDone(p) == pc[p] = "done" /\ op[p].kind \in {"query", "query_rag"}

\* C37 as claimed: every invocation of query_ragbot made for an
\* authenticated user through any exposed endpoint is preceded by a passed
\* quota check for that user and, when it returns an answer, followed by a
\* quota decrement; no endpoint produces an answer for a user whose
\* requests_available is 0.
C37_RouterBehindQuota ==
    \A p \in Procs :
        AskedDone(p) =>
            /\ hist[p].router > 0 =>
                  /\ ~IsNone(hist[p].quota_seen)
                  /\ Val(hist[p].quota_seen) > 0
            /\ (hist[p].router > 0 /\ response[p].status = 200) =>
                  AvailableNow(p) = AvailableBefore(p) - 1
            /\ response[p].status = 200 => AvailableBefore(p) > 0

\* The part that holds: the claim for POST /query alone.
C37_QueryEndpointBehindQuota ==
    \A p \in Procs :
        QueryDone(p) =>
            /\ hist[p].router > 0 =>
                  /\ ~IsNone(hist[p].quota_seen)
                  /\ Val(hist[p].quota_seen) > 0
            /\ (hist[p].router > 0 /\ response[p].status = 200) =>
                  AvailableNow(p) = AvailableBefore(p) - 1
            /\ response[p].status = 200 => AvailableBefore(p) > 0

\* GET /ingest/ answered a user whose counter was at 0 before and after.
C37_AnsweredAtZero ==
    \E p \in Procs :
        /\ AskedDone(p)
        /\ op[p].kind = "query_rag"
        /\ response[p].status = 200
        /\ AvailableBefore(p) = 0
        /\ AvailableNow(p) = 0

\* The whole collection of the listing in its sorted order.
ListedSorted == [k \in 1..Len(ListedCollection) |-> ListedAt(k - 1)]

\* The pages one after the other.
RECURSIVE Flatten(_)
Flatten(pages) ==
    IF pages = <<>> THEN <<>> ELSE Head(pages) \o Flatten(Tail(pages))

\* C38: for a fixed stored collection, sort key, sort order and page size s,
\* the pages 1..total_pages of a paginated listing, one after the other, are
\* the whole sorted collection: every element is on exactly one page, every
\* page but the last holds exactly s elements, and an empty collection has
\* total_pages = 0 with has_next false on page 1.
C38_PagesCoverCollection ==
    (ret.called /\ ListedExists) =>
        /\ ~ret.out.raised
        /\ LET l == ret.out.listing
               s == call.page_size
               n == Len(ListedCollection)
               seen == Flatten(ret.pages)
           IN /\ Len(ret.pages) = call.page
              /\ \A k \in 1..Len(ret.pages) :
                    /\ k < l.total_pages => Len(ret.pages[k]) = s
                    /\ k = l.total_pages =>
                          (1 <= Len(ret.pages[k]) /\ Len(ret.pages[k]) <= s)
              /\ Len(seen) <= n
              /\ seen = SubSeq(ListedSorted, 1, Len(seen))
              /\ l.has_next <=> Len(seen) < n
              /\ ~l.has_next =>
                    /\ seen = ListedSorted
                    /\ call.page = IF n = 0 THEN 1 ELSE l.total_pages
              /\ n = 0 => (l.total_pages = 0 /\ ~l.has_next /\ call.page = 1)

\* Three threads listed by title, descending, in pages of two: the walk
\* ended on the second page, which holds the one thread left.
C38_Witness ==
    /\ ret.called
    /\ ~ret.out.raised
    /\ call.fn = "get_user_threads_paginated"
    /\ call.sort_by = "title"
    /\ call.sort_order = "DESC"
    /\ call.page_size = 2
    /\ call.page = 2
    /\ ~ret.out.listing.has_next
    /\ Len(ret.pages) = 2
    /\ Len(ret.pages[1]) = 2
    /\ Len(ret.pages[2]) = 1
    /\ Len(ListedCollection) = 3
    /\ \A i \in 1..3 : \E k \in 1..2 : \E j \in 1..Len(ret.pages[k]) :
          ret.pages[k][j] = ListedCollection[i]

\* The cached key set was younger than the life of the cache when the call
\* read the clock.
WasYoung ==
    /\ ~IsNone(ret.before.cache)
    /\ ret.now - ret.before.time < KeysTtl

Verified == ret.called /\ call.fn = "verify_google_token"

\* The policy of the cache up to the rejection for want of keys: a young
\* key set is returned without a fetch; otherwise a fetch is attempted; a
\* fetch that yields a key set replaces the cache and its time; a failed
\* fetch returns the expired key set when there is one and leaves the cache
\* and its time as they were, and returns None when there is none.
C39_StaleOnFetchFailure ==
    Verified =>
        /\ WasYoung =>
              /\ ~ret.fetched
              /\ ret.keys = ret.before.cache
              /\ ret.after = ret.before
        /\ ~WasYoung => ret.fetched
        /\ (~WasYoung /\ call.fetch.ok) =>
              /\ ret.keys = Some(call.fetch.keys)
              /\ ret.after = [cache |-> ret.keys, time |-> ret.now]
        /\ (~WasYoung /\ ~call.fetch.ok) =>
              /\ ret.keys = ret.before.cache
              /\ ret.after = ret.before
        /\ IsNone(ret.keys) <=>
              (IsNone(ret.before.cache) /\ ~call.fetch.ok)

\* C39 as claimed: the policy above, and no keys are returned, so that
\* authentication is rejected for want of keys, only when no key set was
\* ever cached or the cache was cleared.
C39_KeyCachePolicy ==
    /\ C39_StaleOnFetchFailure
    /\ (Verified /\ ret.verdict = "no_keys") => IsNone(ret.before.cache)

\* A token was rejected for want of keys without a fetch, while the cache
\* held a young key set that lists no key.
C39_RejectedOnCachedEmptySet ==
    /\ Verified
    /\ ret.verdict = "no_keys"
    /\ ~ret.fetched
    /\ ret.before.cache = Some({})

\* An expired key set was served after a failed fetch, and the token was
\* verified with it.
C39_StaleServed ==
    /\ Verified
    /\ ~WasYoung
    /\ ret.fetched
    /\ ~call.fetch.ok
    /\ ret.keys = Some({"k1"})
    /\ ret.after = ret.before
    /\ ret.verdict = "verified"

====
